---- MODULE Spec2Model ----
(***************************************************************************)
(* A model of the knob / fan gauge / parametric preview pipeline of        *)
(* sorashin/knob.                                                          *)
(*                                                                         *)
(*  - PolygonsToolPreview3D (src/src/components/PolygonsToolPreview3D.tsx) *)
(*    : the React effects that load the graph, run the initial evaluation  *)
(*    and debounce the re-evaluations; specification Spec.                 *)
(*                                                                         *)
(* Time is counted in milliseconds.  A pending setTimeout is a record with *)
(* the time left before it is due; time cannot pass a due timer, so a      *)
(* timer callback runs exactly when its delay has elapsed.                 *)
(***************************************************************************)
EXTENDS Integers, Sequences, FiniteSets, TLC

VARIABLES
  variant,          \* the preview mounted: "current", "early" (part_002) or "jewelry"
  \* ---- PolygonsToolPreview3D
  modular,          \* useState<Modular | null>: TRUE once Modular.new() is stored
  isInitialized,    \* useState(false)
  isEvaluating,     \* isEvaluatingRef.current
  diameterNodeId,   \* diameterNodeIdRef.current
  polygonNodeId,    \* polygonNodeIdRef.current
  pendingNodeId,    \* a node id passed to a state setter and not yet rendered
  diameter,         \* prop diameter
  polygon,          \* prop polygon
  geometries,       \* useState: the displayed set, a sequence of primitives
  timers,           \* the pending setTimeout calls of the update effect
  timeoutId,        \* the timeoutId the last update effect's cleanup holds
  \* ---- the evaluator (nodi-modular), a black box
  nodes,            \* modular.getNodes() of the loaded graph
  nodeValue,        \* node id -> <<>> (the graph's own value) or <<v>>
  inflight,         \* the evaluate() calls that have not settled
  evalCalls,        \* number of evaluate() calls made so far
  \* ---- observation
  sinceChange,      \* ms since the most recent parameter change (saturating)
  burst,            \* the changes made while the pending timer was armed
  lastFire,         \* what the last timer callback that evaluated saw
  \* ---- one Knob and the App state it drives (values in hundredths)
  kcfg,             \* the Knob's props: label, min, max, step and gauge hints
  kvalue,           \* the parent's state behind the value prop
  isDragging,       \* useState(false)
  startX,           \* useState(0)
  startValue,       \* useState(0)
  emitted,          \* <<>> or <<the last onChange call and the drag it was made in>>
  drags,            \* number of drags begun
  \* ---- a second Knob of App, and App's gauge overlay
  otherValue,       \* the parent's state behind the second Knob's value prop
  otherIsDragging,  \* the second Knob's isDragging
  otherStartX,      \* the second Knob's startX
  otherStartValue,  \* the second Knob's startValue
  activeKnob,       \* App: useState<ActiveKnobState | null>(null); <<>> is null
  \* ---- what an evaluation produces and where it ends up
  outputs,          \* the results evaluate() can settle with for the loaded graph
  gcodeText,        \* App: useState<string | null>(null)
  lastPass,         \* <<>> or <<the evaluate() call that settled last, with its result>>
  shown,            \* <<>> or <<the pass whose output setGeometries stored last>>
  \* ---- ModularPreview3D
  innerDiameterNodeId, \* useState<string | null>(null)
  innerDiameter,       \* prop innerDiameter
  \* ---- App: the Print button
  lastExport,       \* <<>> or <<the artifact text the last click found, and the file handed off>>
  \* ---- document: pointer move events
  lastMove          \* <<>> or <<the last mousemove / touchmove observed, and what it did>>

schedVars == <<variant, modular, isInitialized, isEvaluating, diameterNodeId,
               polygonNodeId, pendingNodeId, diameter, polygon, geometries, timers,
               timeoutId, nodes, nodeValue, inflight, evalCalls,
               sinceChange, burst, lastFire>>

knobVars == <<kcfg, kvalue, isDragging, startX, startValue, emitted, drags,
              otherValue, otherIsDragging, otherStartX, otherStartValue,
              activeKnob>>

pipeVars == <<outputs, gcodeText, lastPass, shown>>

jewelVars == <<innerDiameterNodeId, innerDiameter>>

exportVars == <<lastExport>>

moveVars == <<lastMove>>

vars == <<schedVars, knobVars, pipeVars, jewelVars, exportVars, moveVars>>

----------------------------------------------------------------------------
(* Bounds of the model *)

MaxEvals == 3
MaxTimerIds == 3
MaxBurst == 2
MaxDrags == 2

(* Program constants *)

DebounceMs == 150
EarlyDebounceMs == 100

TickSteps == {50}
SinceCap == DebounceMs + 50

DiameterValues == {80, 112}
PolygonValues == {3, 7}
InitialDiameter == 112
InitialPolygon == 7

InnerDiameterValues == {8, 10}
InitialInnerDiameter == 8

NULL == "null"
NoTimer == 0
NoBurst == [n |-> 0, gap |-> 0]
NoFire == [n |-> 0, gap |-> 0, delay |-> 0]

----------------------------------------------------------------------------
(* The graph: a node has an id, a label and, possibly, a "range" property *)

Node(id, rtype, lo, hi) ==
  [id |-> id, label |-> "", rtype |-> rtype, lo |-> lo, hi |-> hi]

LabelledNode(id, label) ==
  [id |-> id, label |-> label, rtype |-> "none", lo |-> 0, hi |-> 0]

NodeA == Node("a", "Vector2d", 80, 250)
NodeB == Node("b", "Vector2d", 3, 16)
NodeC == Node("c", "Vector2d", 0, 1)
NodeN == Node("n", "none", 0, 0)
NodeA2 == Node("a2", "Vector2d", 80, 250)
NodeB2 == Node("b2", "Vector2d", 3, 16)
NodeW == Node("w", "Number", 80, 250)
NodeI == LabelledNode("i", "innerDiameter")
NodeI2 == LabelledNode("i2", "innerDiameter")

Graphs == { <<NodeA, NodeB>>, <<NodeN, NodeA>>, <<NodeB, NodeC>>, <<NodeC>> }

IsDiameterNode(n) == n.rtype = "Vector2d" /\ n.lo = 80 /\ n.hi = 250
IsPolygonNode(n) == n.rtype = "Vector2d" /\ n.lo = 3 /\ n.hi = 16

(* Array.prototype.find: the first element satisfying the predicate; and a  *)
(* search that keeps the last match                                         *)
FindLastDiameterNode(ns) ==
  IF \E i \in 1..Len(ns) : IsDiameterNode(ns[i])
  THEN ns[CHOOSE i \in 1..Len(ns) :
            /\ IsDiameterNode(ns[i])
            /\ \A j \in (i+1)..Len(ns) : ~IsDiameterNode(ns[j])].id
  ELSE NULL

FindDiameterNode(ns) ==
  IF \E i \in 1..Len(ns) : IsDiameterNode(ns[i])
  THEN ns[CHOOSE i \in 1..Len(ns) :
            /\ IsDiameterNode(ns[i])
            /\ \A j \in 1..(i-1) : ~IsDiameterNode(ns[j])].id
  ELSE NULL

FindPolygonNode(ns) ==
  IF \E i \in 1..Len(ns) : IsPolygonNode(ns[i])
  THEN ns[CHOOSE i \in 1..Len(ns) :
            /\ IsPolygonNode(ns[i])
            /\ \A j \in 1..(i-1) : ~IsPolygonNode(ns[j])].id
  ELSE NULL

(* nodes.find(node => node.label === "innerDiameter") *)
IsInnerDiameterNode(n) == n.label = "innerDiameter"

FindInnerDiameterNode(ns) ==
  IF \E i \in 1..Len(ns) : IsInnerDiameterNode(ns[i])
  THEN ns[CHOOSE i \in 1..Len(ns) :
            /\ IsInnerDiameterNode(ns[i])
            /\ \A j \in 1..(i-1) : ~IsInnerDiameterNode(ns[j])].id
  ELSE NULL

NodeIds(ns) == { ns[i].id : i \in 1..Len(ns) }

(* Graphs for node resolution: up to MaxNodes distinct nodes in any order *)
MaxNodes == 3

ResolvePool == {NodeA, NodeA2, NodeB, NodeB2, NodeC, NodeW, NodeI, NodeI2}

ResolveGraphs ==
  UNION { { ns \in [1..n -> ResolvePool] :
               \A i, j \in 1..n : i # j => ns[i] # ns[j] } : n \in 0..MaxNodes }

----------------------------------------------------------------------------
(* Timers *)

Min(a, b) == IF a < b THEN a ELSE b

TimerIds(ts) == { t.id : t \in ts }

(* clearTimeout(id), and a cleanup that forgets to clear *)
ClearTimeoutForgotten(ts, id) == ts

ClearTimeout(ts, id) == { t \in ts : t.id # id }

FreeIds(ts) == (1..MaxTimerIds) \ TimerIds(ts)

(* setTimeout(callback closing over d and p, ms) *)
SetTimeout(ts, d, p, ms) ==
  LET id == CHOOSE i \in FreeIds(ts) : \A j \in FreeIds(ts) : i <= j
  IN  [timers |-> ts \cup {[id |-> id, d |-> d, p |-> p, left |-> ms]},
       timeoutId |-> id]

(* The early return of the load effect; and an effect that looks at modular *)
(* only                                                                     *)
LoadEffectSkipsUnloaded(mod, init) == ~mod

LoadEffectSkips(mod, init) == ~mod \/ init

(* The two early returns of the update effect; and an effect that looks     *)
(* neither at isInitialized nor at isEvaluatingRef                          *)
UpdateEffectSkipsUnbound(mod, init, evaluating, dId, pId) ==
  \/ ~mod
  \/ (dId = NULL /\ pId = NULL)

(* and guards that do not read isEvaluatingRef *)
UpdateEffectSkipsIgnoringFlight(mod, init, evaluating, dId, pId) ==
  \/ ~mod \/ ~init
  \/ (dId = NULL /\ pId = NULL)

UpdateEffectSkips(mod, init, evaluating, dId, pId) ==
  \/ ~mod \/ ~init \/ evaluating
  \/ (dId = NULL /\ pId = NULL)

(* One run of the update effect after a render in which one of its          *)
(* dependencies changed: the previous run's cleanup, then the body; and an  *)
(* effect that returns no cleanup                                           *)
UpdateEffectNoCleanup(ts, tid, mod, init, evaluating, dId, pId, d, p) ==
  IF UpdateEffectSkips(mod, init, evaluating, dId, pId)
  THEN [timers |-> ts, timeoutId |-> NoTimer]
  ELSE SetTimeout(ts, d, p, DebounceMs)

UpdateEffect(ts, tid, mod, init, evaluating, dId, pId, d, p) ==
  LET cleared == ClearTimeout(ts, tid)
  IN  IF UpdateEffectSkips(mod, init, evaluating, dId, pId)
      THEN [timers |-> cleared, timeoutId |-> NoTimer]
      ELSE SetTimeout(cleared, d, p, DebounceMs)

----------------------------------------------------------------------------
(* changeNodeProperty(id, {name: "value", value: v}) *)
ChangeNodeProperty(nv, id, v) == [nv EXCEPT ![id] = <<v>>]

(* The two conditional pushes of the timer callback; and a callback that   *)
(* sends the value of an unbound polygon to the diameter node               *)
PushValuesToAnyNode(nv, dId, pId, d, p) ==
  LET nv1 == IF dId # NULL THEN ChangeNodeProperty(nv, dId, d) ELSE nv
  IN  IF pId # NULL THEN ChangeNodeProperty(nv1, pId, p)
      ELSE IF dId # NULL THEN ChangeNodeProperty(nv1, dId, p) ELSE nv1

PushValues(nv, dId, pId, d, p) ==
  LET nv1 == IF dId # NULL THEN ChangeNodeProperty(nv, dId, d) ELSE nv
  IN  IF pId # NULL THEN ChangeNodeProperty(nv1, pId, p) ELSE nv1

(* isEvaluatingRef.current = true at the head of the timer callback, and a  *)
(* callback that leaves the flag as it found it                             *)
MarkEvaluatingForgotten(flag) == flag

MarkEvaluating(flag) == TRUE

Outcomes == {"ok", "noIds", "fail"}

----------------------------------------------------------------------------
(* What one evaluation pass hands back, and its conversion                  *)
(* (convertGeometryInterop, processGeometries, extractGcode).               *)

(* findGeometryInteropById(id): a record with a variant and its buffers.    *)
(* normals and faces are <<>> when absent, <<n>> for n entries; a record    *)
(* is malformed when reading its buffers throws (data or vertices missing,  *)
(* faces null, no transform).                                               *)
Interop(tag, v, normals, faces, malformed) ==
  [variant |-> tag, vertices |-> v, normals |-> normals, faces |-> faces,
   malformed |-> malformed]

MeshQuad == Interop("Mesh", 4, <<>>, <<2>>, FALSE)
MeshShaded == Interop("Mesh", 3, <<3>>, <<>>, FALSE)
MeshFull == Interop("Mesh", 4, <<4>>, <<2>>, FALSE)
MeshNoFaces == Interop("Mesh", 3, <<>>, <<0>>, FALSE)
MeshBroken == Interop("Mesh", 0, <<>>, <<>>, TRUE)
CurveOpen == Interop("Curve", 3, <<>>, <<>>, FALSE)
CurveWithNormals == Interop("Curve", 2, <<2>>, <<1>>, FALSE)
CurveBroken == Interop("Curve", 0, <<>>, <<>>, TRUE)
SurfacePatch == Interop("Surface", 4, <<>>, <<>>, FALSE)
NoInterop == Interop("undefined", 0, <<>>, <<>>, FALSE)

(* The gcode node after a pass: kind "absent" (no node labelled gcode),     *)
(* "throws" (getNodeOutput throws), "empty" (no value in slot 0),           *)
(* "number" (a payload that is not a string), "text" (a string payload)     *)
Gcode(kind, text) == [kind |-> kind, text |-> text]

GcodeKinds == {"absent", "throws", "empty", "number", "text"}

(* The result of one evaluate() call *)
PassResult(outcome, records, gcode) ==
  [outcome |-> outcome, records |-> records, gcode |-> gcode]

Rejected == PassResult("fail", <<>>, Gcode("absent", ""))
NoIdentifiers == PassResult("noIds", <<>>, Gcode("text", "g2"))
PlainPass == PassResult("ok", <<MeshQuad, CurveOpen>>, Gcode("text", "g1"))

PlainOutputs == {Rejected, NoIdentifiers, PlainPass}

RichOutputs ==
  PlainOutputs \cup
  { PassResult("ok", <<SurfacePatch, MeshShaded, NoInterop, CurveOpen>>,
               Gcode("absent", "")),
    PassResult("ok", <<CurveOpen, MeshBroken, MeshQuad>>, Gcode("text", "g2")),
    PassResult("ok", <<MeshQuad, CurveBroken>>, Gcode("text", "g2")),
    PassResult("ok", <<MeshShaded, MeshNoFaces>>, Gcode("throws", "")),
    PassResult("ok", <<>>, Gcode("number", "")),
    PassResult("ok", <<CurveWithNormals>>, Gcode("empty", "")),
    PassResult("ok", <<MeshFull, MeshQuad>>, Gcode("text", "g2")),
    PassResult("ok", <<MeshQuad>>, Gcode("text", "")) }

(* convertGeometryInterop: whether it throws and what it returns, <<>> for  *)
(* null or <<the buffer lengths of the BufferGeometry>> (index and normal   *)
(* are <<>> when not set); a conversion that treats a curve as a mesh; and  *)
(* a conversion whose default case throws                                   *)
ConvertGeometryInteropCurveAsMesh(interop) ==
  IF interop.variant \in {"Mesh", "Curve"}
  THEN IF interop.malformed THEN [threw |-> TRUE, geometry |-> <<>>]
       ELSE [threw |-> FALSE,
             geometry |-> <<[position |-> 3 * interop.vertices,
                             normal |-> IF interop.normals # <<>>
                                        THEN <<3 * interop.normals[1]>> ELSE <<>>,
                             index |-> IF interop.faces # <<>>
                                       THEN <<3 * interop.faces[1]>> ELSE <<>>]>>]
  ELSE [threw |-> FALSE, geometry |-> <<>>]

ConvertGeometryInteropStrict(interop) ==
  IF interop.variant \in {"Mesh", "Curve"} /\ ~interop.malformed
  THEN [threw |-> FALSE,
        geometry |-> <<[position |-> 3 * interop.vertices,
                        normal |-> <<>>, index |-> <<>>]>>]
  ELSE [threw |-> TRUE, geometry |-> <<>>]

ConvertGeometryInterop(interop) ==
  IF interop.variant = "Mesh"
  THEN IF interop.malformed THEN [threw |-> TRUE, geometry |-> <<>>]
       ELSE [threw |-> FALSE,
             geometry |-> <<[position |-> 3 * interop.vertices,
                             normal |-> IF interop.normals # <<>>
                                        THEN <<3 * interop.normals[1]>> ELSE <<>>,
                             index |-> IF interop.faces # <<>>
                                       THEN <<3 * interop.faces[1]>> ELSE <<>>]>>]
  ELSE IF interop.variant = "Curve"
  THEN IF interop.malformed THEN [threw |-> TRUE, geometry |-> <<>>]
       ELSE [threw |-> FALSE,
             geometry |-> <<[position |-> 3 * interop.vertices,
                             normal |-> <<>>, index |-> <<>>]>>]
  ELSE [threw |-> FALSE, geometry |-> <<>>]

(* processGeometries: the loop over the first k records of a pass; a throw  *)
(* of one conversion leaves the loop and the function; and a loop that      *)
(* catches the throw and goes on with the next record                       *)
RECURSIVE ProcessGeometriesSkipping(_, _, _)
ProcessGeometriesSkipping(records, k, pass) ==
  IF k = 0 THEN [threw |-> FALSE, prims |-> <<>>]
  ELSE LET before == ProcessGeometriesSkipping(records, k - 1, pass)
           c == ConvertGeometryInterop(records[k])
       IN  IF c.threw \/ c.geometry = <<>> THEN before
           ELSE [threw |-> FALSE,
                 prims |-> Append(before.prims,
                    [pass |-> pass, record |-> k, geometry |-> c.geometry[1],
                     type |-> IF records[k].variant = "Mesh"
                              THEN "mesh" ELSE "curve"])]

RECURSIVE ProcessGeometries(_, _, _)
ProcessGeometries(records, k, pass) ==
  IF k = 0 THEN [threw |-> FALSE, prims |-> <<>>]
  ELSE LET before == ProcessGeometries(records, k - 1, pass)
           c == ConvertGeometryInterop(records[k])
       IN  IF before.threw \/ c.threw
           THEN [threw |-> TRUE, prims |-> <<>>]
           ELSE IF c.geometry = <<>> THEN before
           ELSE [threw |-> FALSE,
                 prims |-> Append(before.prims,
                    [pass |-> pass, record |-> k, geometry |-> c.geometry[1],
                     type |-> IF records[k].variant = "Mesh"
                              THEN "mesh" ELSE "curve"])]

(* extractGcode: the value of gcodeText after the call; and an extraction   *)
(* that hands on whatever payload it finds                                  *)
ExtractGcodeUnchecked(gcode, text) ==
  IF gcode.kind = "text" THEN gcode.text
  ELSE IF gcode.kind \in {"number", "empty"} THEN NULL
  ELSE text

ExtractGcode(gcode, text) ==
  IF gcode.kind = "text" /\ gcode.text # "" THEN gcode.text ELSE text

(* The statements after `await modular.evaluate()` up to the end of the     *)
(* try block: what they leave in geometries and gcodeText, and whether      *)
(* they threw; a handler that adds the new primitives to the displayed      *)
(* ones; and a handler that empties the display when it catches             *)
AfterEvaluateAppending(r, pass, geoms, text) ==
  IF r.outcome = "fail"
  THEN [threw |-> TRUE, stored |-> FALSE, geometries |-> geoms, gcodeText |-> text]
  ELSE IF r.outcome = "noIds"
  THEN [threw |-> FALSE, stored |-> FALSE, geometries |-> geoms, gcodeText |-> text]
  ELSE LET pg == ProcessGeometries(r.records, Len(r.records), pass)
       IN  IF pg.threw
           THEN [threw |-> TRUE, stored |-> FALSE, geometries |-> geoms,
                 gcodeText |-> text]
           ELSE [threw |-> FALSE, stored |-> TRUE, geometries |-> geoms \o pg.prims,
                 gcodeText |-> ExtractGcode(r.gcode, text)]

AfterEvaluateClearing(r, pass, geoms, text) ==
  IF r.outcome = "fail"
  THEN [threw |-> TRUE, stored |-> FALSE, geometries |-> <<>>, gcodeText |-> text]
  ELSE IF r.outcome = "noIds"
  THEN [threw |-> FALSE, stored |-> FALSE, geometries |-> geoms, gcodeText |-> text]
  ELSE LET pg == ProcessGeometries(r.records, Len(r.records), pass)
       IN  IF pg.threw
           THEN [threw |-> TRUE, stored |-> FALSE, geometries |-> <<>>,
                 gcodeText |-> text]
           ELSE [threw |-> FALSE, stored |-> TRUE, geometries |-> pg.prims,
                 gcodeText |-> ExtractGcode(r.gcode, text)]

AfterEvaluate(r, pass, geoms, text) ==
  IF r.outcome = "fail"
  THEN [threw |-> TRUE, stored |-> FALSE, geometries |-> geoms, gcodeText |-> text]
  ELSE IF r.outcome = "noIds"
  THEN [threw |-> FALSE, stored |-> FALSE, geometries |-> geoms, gcodeText |-> text]
  ELSE LET pg == ProcessGeometries(r.records, Len(r.records), pass)
       IN  IF pg.threw
           THEN [threw |-> TRUE, stored |-> FALSE, geometries |-> geoms,
                 gcodeText |-> text]
           ELSE [threw |-> FALSE, stored |-> TRUE, geometries |-> pg.prims,
                 gcodeText |-> ExtractGcode(r.gcode, text)]

----------------------------------------------------------------------------
(* Knob (src/src/components/Knob.tsx).  Values are integers counting        *)
(* hundredths; intermediate results of the drag arithmetic are exact        *)
(* fractions with denominator 200 (the drag distance of the full range).    *)

Max(a, b) == IF a > b THEN a ELSE b
Abs(a) == IF a < 0 THEN 0 - a ELSE a

(* The knobs App renders, and further prop sets of the components: S is the *)
(* range [0,100] with step 1, G the range [1,10] with step 4, T and U the   *)
(* ranges [0,40.01] and [0,39.99] without step, whose 41 default gauge      *)
(* ticks lie just above and just below the integers.                        *)
Cfg(label, lo, hi, step, subStep, mainStep, init) ==
  [label |-> label, min |-> lo, max |-> hi, step |-> step,
   subStep |-> subStep, mainStep |-> mainStep, init |-> init]

CfgPx == Cfg("Px", 5, 100, 5, 5, 10, 25)
CfgD == Cfg("D", 8000, 25000, 100, 100, 1000, 11200)
CfgDJewelry == Cfg("D", 500, 1500, 10, 10, 100, 800)
CfgL == Cfg("L", 0, 10000, 0, 100, 1000, 4662)
CfgP == Cfg("P", 300, 1600, 100, 100, 100, 700)
CfgS == Cfg("S", 0, 10000, 100, 0, 0, 5000)
CfgG == Cfg("G", 100, 1000, 400, 0, 0, 100)
CfgT == Cfg("T", 0, 4001, 0, 0, 0, 2000)
CfgU == Cfg("U", 0, 3999, 0, 0, 0, 2000)

AppConfigs == {CfgPx, CfgD, CfgDJewelry, CfgL, CfgP}
KnobConfigs == AppConfigs \cup {CfgS, CfgG, CfgT, CfgU}

(* clientX of the pointer events *)
PointerXs == {100, 150, 151, 300}

DragDistance == 200

(* Math.round(n / d) for d > 0: the nearest integer, halves upwards *)
RoundDiv(n, d) == (2 * n + d) \div (2 * d)

(* startValue + deltaX * sensitivity, times 200 *)
RawTimes200(sv, sx, x, c) == DragDistance * sv + (x - sx) * (c.max - c.min)

(* Math.min(max, Math.max(min, .)), times 200; and a clamp that has lost    *)
(* its Math.min                                                            *)
ClampTimes200LowerOnly(n, c) == Max(DragDistance * c.min, n)

ClampTimes200(n, c) ==
  Min(DragDistance * c.max, Max(DragDistance * c.min, n))

(* if (step) newValue = Math.round(newValue / step) * step, times 200; and *)
(* a quantisation that truncates with Math.floor                           *)
QuantizeFloorTimes200(n, c) ==
  IF c.step # 0
  THEN (n \div (DragDistance * c.step)) * c.step * DragDistance
  ELSE n

QuantizeTimes200(n, c) ==
  IF c.step # 0
  THEN RoundDiv(n, DragDistance * c.step) * c.step * DragDistance
  ELSE n

(* step ? (step.toString().split('.')[1]?.length || 0) : 2 *)
Precision(c) ==
  IF c.step = 0 THEN 2
  ELSE IF c.step % 100 = 0 THEN 0
  ELSE IF c.step % 10 = 0 THEN 1
  ELSE 2

Pow10(k) == IF k = 0 THEN 1 ELSE IF k = 1 THEN 10 ELSE 100

(* Number(newValue.toFixed(precision)): the nearest multiple of             *)
(* 10^-precision, halves away from zero; the result in hundredths           *)
ToFixed(n, prec) ==
  LET unit == DragDistance * Pow10(2 - prec)
      q == IF n >= 0 THEN RoundDiv(n, unit) ELSE 0 - RoundDiv(0 - n, unit)
  IN  q * Pow10(2 - prec)

(* The value handleMouseMove / handleTouchMove pass to onChange *)
NewValue(sv, sx, x, c) ==
  ToFixed(QuantizeTimes200(ClampTimes200(RawTimes200(sv, sx, x, c), c), c),
          Precision(c))

(* The Knob App renders beside the one followed: L, or Px beside L *)
OtherKnob(c) == IF c = CfgL THEN CfgPx ELSE CfgL

(* The state a Knob of App writes through onChange *)
ParamOf(c) ==
  IF c = CfgPx THEN "pixelRatio"
  ELSE IF c = CfgDJewelry THEN "innerDiameter"
  ELSE IF c = CfgD THEN "diameter"
  ELSE IF c = CfgL THEN "lightness"
  ELSE IF c = CfgP THEN "polygon"
  ELSE "none"

(* useState(...) of App: the initial value of each parameter *)
InitialOf(name) ==
  IF name = "pixelRatio" THEN CfgPx.init
  ELSE IF name = "innerDiameter" THEN CfgDJewelry.init
  ELSE IF name = "diameter" THEN CfgD.init
  ELSE IF name = "lightness" THEN CfgL.init
  ELSE IF name = "polygon" THEN CfgP.init
  ELSE 0

(* The current value of a parameter of App: the two Knobs followed write    *)
(* theirs, the others stay as initialised                                   *)
AppState(name) ==
  IF name = ParamOf(kcfg) THEN kvalue
  ELSE IF name = ParamOf(OtherKnob(kcfg)) THEN otherValue
  ELSE InitialOf(name)

(* showJewelry: the D knob of the jewelry preview is rendered *)
ShowJewelry == kcfg = CfgDJewelry

(* getCurrentValue(label); and a lookup that returns the value captured by  *)
(* handleKnobInteractionStart                                               *)
GetCapturedValue(label) == activeKnob[1].value

GetCurrentValue(label) ==
  IF label = "Px" THEN AppState("pixelRatio")
  ELSE IF label = "D"
       THEN IF ShowJewelry THEN AppState("innerDiameter") ELSE AppState("diameter")
  ELSE IF label = "L" THEN AppState("lightness")
  ELSE IF label = "P" THEN AppState("polygon")
  ELSE 0

(* handleKnobInteractionStart(label, value, min, max, subStep, mainStep) *)
HandleKnobInteractionStart(c, v) ==
  <<[label |-> c.label, value |-> v, min |-> c.min, max |-> c.max,
     subStep |-> c.subStep, mainStep |-> c.mainStep]>>

(* handleKnobInteractionEnd; and a handler that leaves the overlay up *)
HandleKnobInteractionEndIgnored(active) == active

HandleKnobInteractionEnd(active) == <<>>

(* value={getCurrentValue(activeKnob.label)} of the FanGauge *)
GaugeValue == GetCurrentValue(activeKnob[1].label)

OtherKnobAtRest ==
  /\ otherValue = OtherKnob(kcfg).init
  /\ otherIsDragging = FALSE
  /\ otherStartX = 0
  /\ otherStartValue = 0
  /\ activeKnob = <<>>

KnobAtRest ==
  /\ kcfg = CfgD
  /\ kvalue = CfgD.init
  /\ isDragging = FALSE
  /\ startX = 0
  /\ startValue = 0
  /\ emitted = <<>>
  /\ drags = 0
  /\ OtherKnobAtRest

----------------------------------------------------------------------------
(* FanGauge (src/unnamed/part_003).  For a gauge of N ticks over a range of *)
(* R hundredths, with M = N - 1: tick values are fractions with denominator *)
(* M, angles are fractions of a degree with denominator M * R, opacities    *)
(* fractions with denominator 60 * M * R.                                   *)

ArcAngle == 120
DefaultTickCount == 41
MainTickLength == 600
SubTickLength == 580

(* subStep ? Math.round((max - min) / subStep) + 1 : 41 *)
TickCount(c) ==
  IF c.subStep # 0 THEN RoundDiv(c.max - c.min, c.subStep) + 1
  ELSE DefaultTickCount

(* tickValue = min + (i / (tickCount - 1)) * (max - min), times M *)
TickValueTimesM(i, c) == c.min * (TickCount(c) - 1) + i * (c.max - c.min)

(* Math.abs(tickValue - value) < (max - min) / (tickCount - 1) / 2, and a    *)
(* comparison against the whole spacing instead of half of it               *)
IsCurrentWholeSpacing(i, value, c) ==
  Abs(TickValueTimesM(i, c) - value * (TickCount(c) - 1)) < c.max - c.min

IsCurrent(i, value, c) ==
  2 * Abs(TickValueTimesM(i, c) - value * (TickCount(c) - 1)) < c.max - c.min

(* angleInDegrees = baseAngle - centerAngleOffset, times M * R *)
AngleTimesMR(i, value, c) ==
  LET M == TickCount(c) - 1
      R == c.max - c.min
      centerAngleOffset == (value - c.min) * ArcAngle * M - (ArcAngle \div 2) * M * R
      baseAngle == (0 - (ArcAngle \div 2)) * M * R + i * ArcAngle * R
  IN  baseAngle - centerAngleOffset

(* if (Math.abs(angleInDegrees) > 90) return null, and a filter that drops  *)
(* at the fade-out angle instead                                            *)
DroppedAtFadeOut(a, den) == Abs(a) > 60 * den

Dropped(a, den) == Abs(a) > 90 * den

(* a % b of JavaScript for b > 0: the sign of the dividend *)
JsRem(a, b) == IF a >= 0 THEN a % b ELSE 0 - ((0 - a) % b)

(* Math.abs(tickValue % m) < 0.001 || Math.abs(tickValue % m - m) < 0.001   *)
(* with m = mainStep, or 1 when mainStep is unset; and a test for an exact  *)
(* multiple                                                                 *)
IsMainStepTickExact(tv, M, c) ==
  LET m == IF c.mainStep # 0 THEN c.mainStep ELSE 100
  IN  JsRem(tv, m * M) = 0

IsMainStepTick(tv, M, c) ==
  LET m == IF c.mainStep # 0 THEN c.mainStep ELSE 100
      r == JsRem(tv, m * M)
  IN  \/ 10 * Abs(r) < M
      \/ 10 * Abs(r - m * M) < M

(* Math.max(0, 1 - Math.abs(angleInDegrees) / 60), times 60 * M * R, and an *)
(* opacity that fades over the 90 degrees of the visibility filter          *)
OpacityOverVisibleRange(a, den) == Max(0, 2 * (90 * den - Abs(a))) \div 3

Opacity(a, den) == Max(0, 60 * den - Abs(a))

(* One element of the ticks array: <<>> for null, else the rendered tick *)
TickAt(i, value, c) ==
  LET M == TickCount(c) - 1
      R == c.max - c.min
      tv == TickValueTimesM(i, c)
      a == AngleTimesMR(i, value, c)
      isMain == IsMainStepTick(tv, M, c)
  IN  IF Dropped(a, M * R) THEN <<>>
      ELSE <<[i |-> i,
              tickValue |-> tv,
              isCurrent |-> IsCurrent(i, value, c),
              angle |-> a,
              isMain |-> isMain,
              tickLength |-> IF isMain THEN MainTickLength ELSE SubTickLength,
              opacity |-> Opacity(a, M * R),
              hasLabel |-> isMain]>>

(* Array.from({ length: tickCount }, ...) *)
Ticks(value, c) == [i \in 0..(TickCount(c) - 1) |-> TickAt(i, value, c)]

(* The gauge App shows for the knob: the live value, the knob's range *)
GaugeTicks == Ticks(kvalue, kcfg)

----------------------------------------------------------------------------
InitScheduler ==
  /\ modular = FALSE
  /\ pendingNodeId = NULL
  /\ isInitialized = FALSE
  /\ isEvaluating = FALSE
  /\ diameterNodeId = NULL
  /\ polygonNodeId = NULL
  /\ diameter = InitialDiameter
  /\ polygon = InitialPolygon
  /\ geometries = <<>>
  /\ timers = {}
  /\ timeoutId = NoTimer
  /\ inflight = {}
  /\ evalCalls = 0
  /\ sinceChange = SinceCap
  /\ burst = NoBurst
  /\ lastFire = NoFire
  /\ gcodeText = NULL
  /\ lastPass = <<>>
  /\ shown = <<>>
  /\ innerDiameterNodeId = NULL
  /\ innerDiameter = InitialInnerDiameter
  /\ lastExport = <<>>
  /\ lastMove = <<>>

InitPreview ==
  /\ InitScheduler
  /\ nodes \in Graphs
  /\ nodeValue = [id \in NodeIds(nodes) |-> <<>>]
  /\ outputs = PlainOutputs

(* initModular resolves: setModular(mod).  The render that follows runs the *)
(* load effect (loadAndEvaluate up to its await) and the update effect,     *)
(* which returns at once because isInitialized is false.                    *)
SetModular(loadOk) ==
  /\ ~modular
  /\ modular' = TRUE
  /\ IF loadOk
     THEN /\ evalCalls < MaxEvals
          /\ isEvaluating' = TRUE
          /\ diameterNodeId' = FindDiameterNode(nodes)
          /\ polygonNodeId' = FindPolygonNode(nodes)
          /\ inflight' = inflight \cup {[id |-> evalCalls + 1, kind |-> "initial"]}
          /\ evalCalls' = evalCalls + 1
     ELSE \* loadGraph throws: catch, finally
          /\ isEvaluating' = FALSE
          /\ UNCHANGED <<diameterNodeId, polygonNodeId, inflight, evalCalls>>
  /\ LET e == UpdateEffect(timers, timeoutId, TRUE, isInitialized,
                           isEvaluating', diameterNodeId', polygonNodeId',
                           diameter, polygon)
     IN  timers' = e.timers /\ timeoutId' = e.timeoutId
  /\ UNCHANGED <<moveVars, exportVars, knobVars, jewelVars, pipeVars, variant, pendingNodeId, isInitialized, diameter, polygon,
                 geometries, nodes, nodeValue, sinceChange, burst, lastFire>>

(* The parent re-renders the preview with a new diameter or polygon: the    *)
(* update effect's cleanup and body run.                                    *)
ParamChanged(d, p) ==
  /\ LET e == UpdateEffect(timers, timeoutId, modular, isInitialized,
                           isEvaluating, diameterNodeId, polygonNodeId, d, p)
     IN  /\ timers' = e.timers
         /\ timeoutId' = e.timeoutId
         /\ burst' = IF e.timers = {} THEN NoBurst
                     ELSE IF timers = {} THEN [n |-> 1, gap |-> sinceChange]
                     ELSE [n |-> Min(burst.n + 1, MaxBurst), gap |-> sinceChange]
  /\ diameter' = d
  /\ polygon' = p
  /\ sinceChange' = 0
  /\ UNCHANGED <<moveVars, exportVars, knobVars, jewelVars, pipeVars, variant, pendingNodeId, modular, isInitialized, isEvaluating, diameterNodeId,
                 polygonNodeId, geometries, nodes, nodeValue, inflight,
                 evalCalls, lastFire>>

ChangeDiameter(d) ==
  /\ d \in DiameterValues /\ d # diameter
  /\ ParamChanged(d, polygon)

ChangePolygon(p) ==
  /\ p \in PolygonValues /\ p # polygon
  /\ ParamChanged(diameter, p)

(* The debounce timer's callback *)
TimerFire(t) ==
  /\ t \in timers
  /\ t.left = 0
  /\ timers' = timers \ {t}
  /\ IF isEvaluating
     THEN UNCHANGED <<isEvaluating, nodeValue, inflight, evalCalls, lastFire>>
     ELSE /\ evalCalls < MaxEvals
          /\ isEvaluating' = MarkEvaluating(isEvaluating)
          /\ nodeValue' = PushValues(nodeValue, diameterNodeId, polygonNodeId,
                                     t.d, t.p)
          /\ inflight' = inflight \cup {[id |-> evalCalls + 1, kind |-> "update"]}
          /\ evalCalls' = evalCalls + 1
          /\ lastFire' = [n |-> burst.n, gap |-> burst.gap,
                          delay |-> sinceChange]
  /\ UNCHANGED <<moveVars, exportVars, knobVars, jewelVars, pipeVars, variant, pendingNodeId, modular, isInitialized, diameterNodeId, polygonNodeId,
                 diameter, polygon, geometries, timeoutId, nodes,
                 sinceChange, burst>>

(* The initial evaluate() settles with r: the rest of loadAndEvaluate, then *)
(* the render caused by setIsInitialized(true) runs both effects: the load  *)
(* effect, which loads and evaluates again unless it returns early, and the *)
(* update effect.                                                           *)
InitialEvalSettles(e, r) ==
  /\ e \in inflight
  /\ e.kind = "initial"
  /\ LET a == AfterEvaluate(r, e.id, geometries, gcodeText)
         reload == ~a.threw /\ ~LoadEffectSkips(modular, TRUE)
     IN  /\ geometries' = a.geometries
         /\ gcodeText' = a.gcodeText
         /\ shown' = IF a.stored THEN <<[id |-> e.id, result |-> r]>> ELSE shown
         /\ isInitialized' = ~a.threw
         /\ IF reload
            THEN /\ evalCalls < MaxEvals
                 /\ isEvaluating' = TRUE
                 /\ diameterNodeId' = FindDiameterNode(nodes)
                 /\ polygonNodeId' = FindPolygonNode(nodes)
                 /\ inflight' = (inflight \ {e}) \cup
                                   {[id |-> evalCalls + 1, kind |-> "initial"]}
                 /\ evalCalls' = evalCalls + 1
            ELSE /\ isEvaluating' = FALSE
                 /\ inflight' = inflight \ {e}
                 /\ UNCHANGED <<diameterNodeId, polygonNodeId, evalCalls>>
         /\ IF ~a.threw
            THEN LET u == UpdateEffect(timers, timeoutId, modular, TRUE,
                                       isEvaluating',
                                       diameterNodeId', polygonNodeId',
                                       diameter, polygon)
                 IN  /\ timers' = u.timers
                     /\ timeoutId' = u.timeoutId
                     /\ sinceChange' = IF u.timers # {} THEN 0 ELSE sinceChange
                     /\ burst' = NoBurst
            ELSE UNCHANGED <<timers, timeoutId, sinceChange, burst>>
  /\ lastPass' = <<[id |-> e.id, kind |-> e.kind, result |-> r]>>
  /\ UNCHANGED <<moveVars, exportVars, knobVars, jewelVars, outputs, variant, pendingNodeId, modular,
                 diameter, polygon, nodes, nodeValue, lastFire>>

(* An evaluate() started by a timer callback settles with r *)
UpdateEvalSettles(e, r) ==
  /\ e \in inflight
  /\ e.kind = "update"
  /\ inflight' = inflight \ {e}
  /\ isEvaluating' = FALSE
  /\ LET a == AfterEvaluate(r, e.id, geometries, gcodeText)
     IN  /\ geometries' = a.geometries
         /\ gcodeText' = a.gcodeText
         /\ shown' = IF a.stored THEN <<[id |-> e.id, result |-> r]>> ELSE shown
  /\ lastPass' = <<[id |-> e.id, kind |-> e.kind, result |-> r]>>
  /\ UNCHANGED <<moveVars, exportVars, knobVars, jewelVars, outputs, variant, pendingNodeId, modular,
                 isInitialized, diameterNodeId, polygonNodeId,
                 diameter, polygon, timers, timeoutId, nodes, nodeValue,
                 evalCalls, sinceChange, burst, lastFire>>

(* Time passes, but not beyond the moment a pending timer is due *)
Tick(dt) ==
  /\ \A t \in timers : t.left >= dt
  /\ timers' = { [t EXCEPT !.left = @ - dt] : t \in timers }
  /\ sinceChange' = Min(sinceChange + dt, SinceCap)
  /\ sinceChange' # sinceChange \/ timers' # timers
  /\ UNCHANGED <<moveVars, exportVars, knobVars, jewelVars, pipeVars, variant, pendingNodeId, modular, isInitialized, isEvaluating, diameterNodeId,
                 polygonNodeId, diameter, polygon, geometries, timeoutId,
                 nodes, nodeValue, inflight, evalCalls, burst, lastFire>>

Next ==
  \/ \E ok \in BOOLEAN : SetModular(ok)
  \/ \E d \in DiameterValues : ChangeDiameter(d)
  \/ \E p \in PolygonValues : ChangePolygon(p)
  \/ \E t \in timers : TimerFire(t)
  \/ \E e \in inflight, r \in outputs : InitialEvalSettles(e, r)
  \/ \E e \in inflight, r \in outputs : UpdateEvalSettles(e, r)
  \/ \E dt \in TickSteps : Tick(dt)

Init == InitPreview /\ variant = "current" /\ KnobAtRest

Spec == Init /\ [][Next]_vars

----------------------------------------------------------------------------
(* The earlier PolygonsToolPreview3D (src/unnamed/part_002): the bound node *)
(* id is React state, loadAndEvaluate does not touch isEvaluatingRef, there *)
(* is no isInitialized, only diameter is forwarded, the window is 100 ms.   *)

EarlyUpdateEffectSkips(mod, dId, evaluating) == ~mod \/ dId = NULL \/ evaluating

(* An update effect that keeps a pending timer running instead of replacing *)
(* it                                                                       *)
EarlyUpdateEffectKeepsTimer(ts, tid, mod, dId, evaluating, d, p) ==
  IF ts # {} THEN [timers |-> ts, timeoutId |-> tid]
  ELSE IF EarlyUpdateEffectSkips(mod, dId, evaluating)
       THEN [timers |-> ts, timeoutId |-> NoTimer]
       ELSE SetTimeout(ts, d, p, EarlyDebounceMs)

EarlyUpdateEffect(ts, tid, mod, dId, evaluating, d, p) ==
  LET cleared == ClearTimeout(ts, tid)
  IN  IF EarlyUpdateEffectSkips(mod, dId, evaluating)
      THEN [timers |-> cleared, timeoutId |-> NoTimer]
      ELSE SetTimeout(cleared, d, p, EarlyDebounceMs)

(* setModular(mod): the load effect runs loadAndEvaluate up to its await;   *)
(* the update effect of the same render sees diameterNodeId still null.     *)
EarlySetModular(loadOk) ==
  /\ ~modular
  /\ modular' = TRUE
  /\ IF loadOk
     THEN /\ evalCalls < MaxEvals
          /\ pendingNodeId' = FindDiameterNode(nodes)
          /\ inflight' = inflight \cup {[id |-> evalCalls + 1, kind |-> "initial"]}
          /\ evalCalls' = evalCalls + 1
     ELSE UNCHANGED <<pendingNodeId, inflight, evalCalls>>
  /\ LET e == EarlyUpdateEffect(timers, timeoutId, TRUE, diameterNodeId,
                                isEvaluating, diameter, polygon)
     IN  timers' = e.timers /\ timeoutId' = e.timeoutId
  /\ UNCHANGED <<moveVars, exportVars, knobVars, jewelVars, pipeVars, variant, isInitialized, isEvaluating, diameterNodeId,
                 polygonNodeId, diameter, polygon, geometries, nodes,
                 nodeValue, sinceChange, burst, lastFire>>

(* The render caused by setDiameterNodeId(id): the update effect runs *)
EarlyRenderNodeId ==
  /\ pendingNodeId # NULL
  /\ diameterNodeId' = pendingNodeId
  /\ pendingNodeId' = NULL
  /\ LET e == EarlyUpdateEffect(timers, timeoutId, modular, pendingNodeId,
                                isEvaluating, diameter, polygon)
     IN  /\ timers' = e.timers
         /\ timeoutId' = e.timeoutId
         /\ sinceChange' = IF e.timers # {} THEN 0 ELSE sinceChange
         /\ burst' = NoBurst
  /\ UNCHANGED <<moveVars, exportVars, knobVars, jewelVars, pipeVars, variant, modular, isInitialized, isEvaluating, polygonNodeId,
                 diameter, polygon, geometries, nodes, nodeValue, inflight,
                 evalCalls, lastFire>>

EarlyChangeDiameter(d) ==
  /\ d \in DiameterValues /\ d # diameter
  /\ LET e == EarlyUpdateEffect(timers, timeoutId, modular, diameterNodeId,
                                isEvaluating, d, polygon)
     IN  /\ timers' = e.timers
         /\ timeoutId' = e.timeoutId
         /\ burst' = IF e.timers = {} THEN NoBurst
                     ELSE IF timers = {} THEN [n |-> 1, gap |-> sinceChange]
                     ELSE [n |-> Min(burst.n + 1, MaxBurst), gap |-> sinceChange]
  /\ diameter' = d
  /\ sinceChange' = 0
  /\ UNCHANGED <<moveVars, exportVars, knobVars, jewelVars, pipeVars, variant, pendingNodeId, modular, isInitialized, isEvaluating,
                 diameterNodeId, polygonNodeId, polygon, geometries, nodes,
                 nodeValue, inflight, evalCalls, lastFire>>

(* The timer callback: it does not look at isEvaluatingRef *)
EarlyTimerFire(t) ==
  /\ t \in timers
  /\ t.left = 0
  /\ evalCalls < MaxEvals
  /\ timers' = timers \ {t}
  /\ isEvaluating' = TRUE
  /\ nodeValue' = ChangeNodeProperty(nodeValue, diameterNodeId, t.d)
  /\ inflight' = inflight \cup {[id |-> evalCalls + 1, kind |-> "update"]}
  /\ evalCalls' = evalCalls + 1
  /\ lastFire' = [n |-> burst.n, gap |-> burst.gap, delay |-> sinceChange]
  /\ UNCHANGED <<moveVars, exportVars, knobVars, jewelVars, pipeVars, variant, pendingNodeId, modular, isInitialized,
                 diameterNodeId, polygonNodeId, diameter, polygon, geometries,
                 timeoutId, nodes, sinceChange, burst>>

(* The statements after `await modular.evaluate()` of the earlier variant:  *)
(* the same loop inline, and no gcode extraction                            *)
EarlyAfterEvaluate(r, pass, geoms) ==
  IF r.outcome = "fail" THEN [stored |-> FALSE, geometries |-> geoms]
  ELSE IF r.outcome = "noIds" THEN [stored |-> FALSE, geometries |-> geoms]
  ELSE LET pg == ProcessGeometries(r.records, Len(r.records), pass)
       IN  IF pg.threw THEN [stored |-> FALSE, geometries |-> geoms]
           ELSE [stored |-> TRUE, geometries |-> pg.prims]

EarlyInitialEvalSettles(e, r) ==
  /\ e \in inflight
  /\ e.kind = "initial"
  /\ inflight' = inflight \ {e}
  /\ LET a == EarlyAfterEvaluate(r, e.id, geometries)
     IN  /\ geometries' = a.geometries
         /\ shown' = IF a.stored THEN <<[id |-> e.id, result |-> r]>> ELSE shown
  /\ lastPass' = <<[id |-> e.id, kind |-> e.kind, result |-> r]>>
  /\ UNCHANGED <<moveVars, exportVars, knobVars, jewelVars, outputs, gcodeText, variant, pendingNodeId,
                 modular, isInitialized, isEvaluating,
                 diameterNodeId, polygonNodeId, diameter, polygon, timers,
                 timeoutId, nodes, nodeValue, evalCalls, sinceChange, burst,
                 lastFire>>

EarlyUpdateEvalSettles(e, r) ==
  /\ e \in inflight
  /\ e.kind = "update"
  /\ inflight' = inflight \ {e}
  /\ isEvaluating' = FALSE
  /\ LET a == EarlyAfterEvaluate(r, e.id, geometries)
     IN  /\ geometries' = a.geometries
         /\ shown' = IF a.stored THEN <<[id |-> e.id, result |-> r]>> ELSE shown
  /\ lastPass' = <<[id |-> e.id, kind |-> e.kind, result |-> r]>>
  /\ UNCHANGED <<moveVars, exportVars, knobVars, jewelVars, outputs, gcodeText, variant, pendingNodeId,
                 modular, isInitialized,
                 diameterNodeId, polygonNodeId, diameter, polygon, timers,
                 timeoutId, nodes, nodeValue, evalCalls, sinceChange, burst,
                 lastFire>>

NextEarly ==
  \/ \E ok \in BOOLEAN : EarlySetModular(ok)
  \/ EarlyRenderNodeId
  \/ \E d \in DiameterValues : EarlyChangeDiameter(d)
  \/ \E t \in timers : EarlyTimerFire(t)
  \/ \E e \in inflight, r \in outputs : EarlyInitialEvalSettles(e, r)
  \/ \E e \in inflight, r \in outputs : EarlyUpdateEvalSettles(e, r)
  \/ \E dt \in TickSteps : Tick(dt)

InitEarly == InitPreview /\ variant = "early" /\ KnobAtRest

SpecEarly == InitEarly /\ [][NextEarly]_vars

(* Either variant of the preview *)
InitBoth == InitPreview /\ variant \in {"current", "early"} /\ KnobAtRest

NextBoth ==
  \/ variant = "current" /\ Next
  \/ variant = "early" /\ NextEarly

SpecBoth == InitBoth /\ [][NextBoth]_vars

----------------------------------------------------------------------------
(* ModularPreview3D (src/src/components/ModularPreview3D.tsx), the jewelry  *)
(* preview: the bound node id is React state, there is no debounce and no   *)
(* isEvaluatingRef; the update effect evaluates as soon as it runs.         *)

(* The loop of loadAndEvaluate / updateGraph: primitives without a type *)
JewelAfterEvaluate(r, pass, geoms) ==
  IF r.outcome # "ok" THEN [stored |-> FALSE, geometries |-> geoms]
  ELSE LET pg == ProcessGeometries(r.records, Len(r.records), pass)
       IN  IF pg.threw THEN [stored |-> FALSE, geometries |-> geoms]
           ELSE [stored |-> TRUE,
                 geometries |->
                    [i \in 1..Len(pg.prims) |->
                       [pass |-> pg.prims[i].pass, record |-> pg.prims[i].record,
                        geometry |-> pg.prims[i].geometry]]]

(* setModular(mod): the load effect runs loadAndEvaluate up to its await;   *)
(* the update effect of the same render sees innerDiameterNodeId null.      *)
JewelSetModular(loadOk) ==
  /\ ~modular
  /\ modular' = TRUE
  /\ IF loadOk
     THEN /\ evalCalls < MaxEvals
          /\ pendingNodeId' = FindInnerDiameterNode(nodes)
          /\ inflight' = inflight \cup {[id |-> evalCalls + 1, kind |-> "initial"]}
          /\ evalCalls' = evalCalls + 1
     ELSE UNCHANGED <<pendingNodeId, inflight, evalCalls>>
  /\ UNCHANGED <<moveVars, exportVars, knobVars, jewelVars, pipeVars, variant, isInitialized,
                 isEvaluating, diameterNodeId, polygonNodeId, diameter, polygon,
                 geometries, timers, timeoutId, nodes, nodeValue,
                 sinceChange, burst, lastFire>>

(* The render caused by setInnerDiameterNodeId(id): the update effect runs  *)
(* updateGraph up to its await.                                             *)
JewelRenderNodeId ==
  /\ pendingNodeId # NULL
  /\ evalCalls < MaxEvals
  /\ innerDiameterNodeId' = pendingNodeId
  /\ pendingNodeId' = NULL
  /\ nodeValue' = ChangeNodeProperty(nodeValue, pendingNodeId, innerDiameter)
  /\ inflight' = inflight \cup {[id |-> evalCalls + 1, kind |-> "update"]}
  /\ evalCalls' = evalCalls + 1
  /\ UNCHANGED <<moveVars, exportVars, knobVars, pipeVars, innerDiameter, variant, modular, isInitialized,
                 isEvaluating, diameterNodeId, polygonNodeId, diameter, polygon,
                 geometries, timers, timeoutId, nodes,
                 sinceChange, burst, lastFire>>

(* An evaluate() of loadAndEvaluate or updateGraph settles with r *)
JewelEvalSettles(e, r) ==
  /\ e \in inflight
  /\ inflight' = inflight \ {e}
  /\ LET a == JewelAfterEvaluate(r, e.id, geometries)
     IN  /\ geometries' = a.geometries
         /\ shown' = IF a.stored THEN <<[id |-> e.id, result |-> r]>> ELSE shown
  /\ lastPass' = <<[id |-> e.id, kind |-> e.kind, result |-> r]>>
  /\ UNCHANGED <<moveVars, exportVars, knobVars, jewelVars, outputs, gcodeText, variant, pendingNodeId,
                 modular, isInitialized, isEvaluating,
                 diameterNodeId, polygonNodeId, diameter, polygon, timers,
                 timeoutId, nodes, nodeValue, evalCalls, sinceChange, burst,
                 lastFire>>

(* The parent re-renders the preview with a new innerDiameter: the update   *)
(* effect returns when nothing is bound, else runs updateGraph up to its    *)
(* await.                                                                   *)
JewelChangeInnerDiameter(v) ==
  /\ v \in InnerDiameterValues /\ v # innerDiameter
  /\ innerDiameter' = v
  /\ IF ~modular \/ innerDiameterNodeId = NULL
     THEN UNCHANGED <<nodeValue, inflight, evalCalls>>
     ELSE /\ evalCalls < MaxEvals
          /\ nodeValue' = ChangeNodeProperty(nodeValue, innerDiameterNodeId, v)
          /\ inflight' = inflight \cup {[id |-> evalCalls + 1, kind |-> "update"]}
          /\ evalCalls' = evalCalls + 1
  /\ UNCHANGED <<moveVars, exportVars, knobVars, pipeVars, innerDiameterNodeId, variant, pendingNodeId,
                 modular, isInitialized, isEvaluating, diameterNodeId,
                 polygonNodeId, diameter, polygon, geometries, timers,
                 timeoutId, nodes, sinceChange, burst, lastFire>>

NextJewel ==
  \/ \E ok \in BOOLEAN : JewelSetModular(ok)
  \/ JewelRenderNodeId
  \/ \E v \in InnerDiameterValues : JewelChangeInnerDiameter(v)
  \/ \E e \in inflight, r \in outputs : JewelEvalSettles(e, r)

----------------------------------------------------------------------------
(* The current preview on the graph with both nodes, with an evaluator      *)
(* whose passes hold every kind of record and of gcode output               *)

InitPass ==
  /\ InitScheduler
  /\ nodes = <<NodeA, NodeB>>
  /\ nodeValue = [id \in NodeIds(nodes) |-> <<>>]
  /\ outputs = RichOutputs
  /\ variant = "current"
  /\ KnobAtRest

(* The steps of Next, with time passing one whole debounce window at once *)
NextPass ==
  \/ \E ok \in BOOLEAN : SetModular(ok)
  \/ \E d \in DiameterValues : ChangeDiameter(d)
  \/ \E p \in PolygonValues : ChangePolygon(p)
  \/ \E t \in timers : TimerFire(t)
  \/ \E e \in inflight, r \in outputs : InitialEvalSettles(e, r)
  \/ \E e \in inflight, r \in outputs : UpdateEvalSettles(e, r)
  \/ Tick(DebounceMs)

SpecPass == InitPass /\ [][NextPass]_vars

----------------------------------------------------------------------------
(* App's Print button (handleExportGcode) beside the current preview        *)

(* The Blob handed to the download link: <<>> when the handler returns at   *)
(* `if (!gcodeText)`, else <<its content>>; and a handler without the test  *)
ExportFileUnchecked(text) == <<text>>

ExportFile(text) == IF text = NULL \/ text = "" THEN <<>> ELSE <<text>>

HandleExportGcode ==
  /\ lastExport' = <<[text |-> gcodeText, file |-> ExportFile(gcodeText)]>>
  /\ UNCHANGED <<moveVars, schedVars, knobVars, pipeVars, jewelVars>>

ExportOutputs ==
  PlainOutputs \cup {PassResult("ok", <<MeshQuad>>, Gcode("text", "g2"))}

InitExport ==
  /\ InitScheduler
  /\ nodes = <<NodeA, NodeB>>
  /\ nodeValue = [id \in NodeIds(nodes) |-> <<>>]
  /\ outputs = ExportOutputs
  /\ variant = "current"
  /\ KnobAtRest

NextExport ==
  \/ NextPass
  \/ HandleExportGcode

SpecExport == InitExport /\ [][NextExport]_vars

----------------------------------------------------------------------------
(* App's pixelRatio and lightness beside the current preview: the L knob is *)
(* the Knob followed (kvalue is lightness), Px the second (otherValue is    *)
(* pixelRatio)                                                              *)

PixelRatioValues == {CfgPx.init, CfgPx.max}
LightnessValues == {CfgL.init, CfgL.max}

(* The dependency array of the update effect, for a render with pixelRatio  *)
(* px; and an array that lists every prop                                   *)
UpdateEffectDepsAllProps(d, p, mod, init, px) == <<d, p, mod, init, px>>

UpdateEffectDeps(d, p, mod, init, px) == <<d, p, mod, init>>

(* App renders the preview again with pixelRatio px and the diameter and    *)
(* polygon it had: the update effect's cleanup and body run when one of its *)
(* dependencies differs from the previous render's.  Scene's layout effect  *)
(* hands px to the renderer and the effect that stores onGcodeUpdate in its *)
(* ref runs; neither touches the state of the preview.                      *)
RenderPreview(px) ==
  LET rerun == UpdateEffectDeps(diameter, polygon, modular, isInitialized, px)
                 # UpdateEffectDeps(diameter, polygon, modular, isInitialized,
                                    AppState("pixelRatio"))
      e == UpdateEffect(timers, timeoutId, modular, isInitialized,
                        isEvaluating, diameterNodeId, polygonNodeId,
                        diameter, polygon)
  IN  /\ timers' = IF rerun THEN e.timers ELSE timers
      /\ timeoutId' = IF rerun THEN e.timeoutId ELSE timeoutId
      /\ UNCHANGED <<moveVars, exportVars, jewelVars, pipeVars, variant, pendingNodeId, modular,
                     isInitialized, isEvaluating, diameterNodeId,
                     polygonNodeId, diameter, polygon, geometries, nodes,
                     nodeValue, inflight, evalCalls, sinceChange, burst,
                     lastFire>>

(* setPixelRatio(v) *)
ChangePixelRatio(v) ==
  /\ ParamOf(OtherKnob(kcfg)) = "pixelRatio"
  /\ v \in PixelRatioValues /\ v # otherValue
  /\ otherValue' = v
  /\ RenderPreview(v)
  /\ UNCHANGED <<kcfg, kvalue, isDragging, startX, startValue, emitted, drags,
                 otherIsDragging, otherStartX, otherStartValue, activeKnob>>

(* setLightness(v): lightness is not a prop of the preview *)
ChangeLightness(v) ==
  /\ ParamOf(kcfg) = "lightness"
  /\ v \in LightnessValues /\ v # kvalue
  /\ kvalue' = v
  /\ RenderPreview(AppState("pixelRatio"))
  /\ UNCHANGED <<kcfg, isDragging, startX, startValue, emitted, drags,
                 otherValue, otherIsDragging, otherStartX, otherStartValue,
                 activeKnob>>

InitFrame ==
  /\ InitScheduler
  /\ nodes = <<NodeA, NodeB>>
  /\ nodeValue = [id \in NodeIds(nodes) |-> <<>>]
  /\ outputs = PlainOutputs
  /\ variant = "current"
  /\ kcfg = CfgL
  /\ kvalue = CfgL.init
  /\ isDragging = FALSE
  /\ startX = 0
  /\ startValue = 0
  /\ emitted = <<>>
  /\ drags = 0
  /\ OtherKnobAtRest

NextFrame ==
  \/ NextPass
  \/ \E v \in PixelRatioValues : ChangePixelRatio(v)
  \/ \E v \in LightnessValues : ChangeLightness(v)

SpecFrame == InitFrame /\ [][NextFrame]_vars

----------------------------------------------------------------------------
(* Node resolution: graph load and the initial evaluation of the current    *)
(* preview and of the jewelry preview, over every graph of ResolveGraphs    *)

InitResolve ==
  /\ InitScheduler
  /\ nodes \in ResolveGraphs
  /\ nodeValue = [id \in NodeIds(nodes) |-> <<>>]
  /\ outputs = PlainOutputs
  /\ variant \in {"current", "jewelry"}
  /\ KnobAtRest

NextResolve ==
  \/ variant = "current" /\ \E ok \in BOOLEAN : SetModular(ok)
  \/ variant = "current" /\ \E e \in inflight, r \in outputs : InitialEvalSettles(e, r)
  \/ variant = "jewelry" /\ NextJewel

SpecResolve == InitResolve /\ [][NextResolve]_vars

----------------------------------------------------------------------------
(* Properties of the evaluation scheduler of PolygonsToolPreview3D *)

Bound == diameterNodeId # NULL \/ polygonNodeId # NULL
Active == modular /\ isInitialized /\ Bound
ParamStep == diameter' # diameter \/ polygon' # polygon
EvalStep == evalCalls' # evalCalls

(* C1: at most one evaluate() call is in flight at any time, the initial    *)
(* load evaluation included, whatever the interleaving of parameter         *)
(* changes, timer expiries and evaluator completions.                       *)
C1_SingleFlight == Cardinality(inflight) <= 1

(* C1 witness: a user-driven evaluation is in flight and a parameter has    *)
(* changed since its values were pushed.                                    *)
C1_Witness ==
  /\ \E e \in inflight : e.kind = "update"
  /\ isEvaluating
  /\ diameterNodeId # NULL
  /\ nodeValue[diameterNodeId] # <<diameter>>

(* C2 (as claimed): a change made while an evaluation is in flight is not   *)
(* lost.  When the scheduler has come to rest (initialised, no timer        *)
(* pending, nothing in flight) no further evaluation can start without a    *)
(* new change, so the values last pushed to the bound nodes must then be    *)
(* the current diameter and polygon.                                        *)
C2_ChangeNeverLost ==
  (Active /\ timers = {} /\ inflight = {} /\ ~isEvaluating) =>
     /\ diameterNodeId # NULL => nodeValue[diameterNodeId] = <<diameter>>
     /\ polygonNodeId # NULL => nodeValue[polygonNodeId] = <<polygon>>

Window == IF variant = "current" THEN DebounceMs ELSE EarlyDebounceMs

(* A step in which a timer callback calls evaluate() *)
FireStep == EvalStep /\ timers' # timers

----------------------------------------------------------------------------
(* One Knob under drag events *)

InitKnob ==
  /\ kcfg \in KnobConfigs
  /\ kvalue = kcfg.init
  /\ isDragging = FALSE
  /\ startX = 0
  /\ startValue = 0
  /\ emitted = <<>>
  /\ drags = 0
  /\ OtherKnobAtRest
  /\ InitPreview /\ variant = "current" /\ nodes = <<NodeA, NodeB>>

DragStart(x) ==
  /\ drags < MaxDrags
  /\ drags' = drags + 1
  /\ isDragging' = TRUE
  /\ startX' = x
  /\ startValue' = kvalue
  /\ activeKnob' = HandleKnobInteractionStart(kcfg, kvalue)
  /\ UNCHANGED <<moveVars, exportVars, schedVars, pipeVars, jewelVars, kcfg, kvalue, emitted,
                 otherValue, otherIsDragging, otherStartX, otherStartValue>>

HandleMouseDown(x) == DragStart(x)

HandleTouchStart(x) == DragStart(x)

(* Whether a Knob's move handler runs its body for a mousemove / touchmove  *)
(* on document: the listeners are registered only while isDragging, and the *)
(* handlers return at once when it is false; and a Knob that always listens *)
MoveHandledAlways(dragging) == TRUE

MoveHandled(dragging) == dragging

(* The parameter behind a Knob after a move event at x: the value passed to *)
(* onChange, computed from startValue and startX, or the value v it had;    *)
(* and a handler that computes from the current value prop                  *)
KnobMoveFromCurrent(dragging, sv, sx, x, c, v) ==
  IF MoveHandled(dragging) THEN NewValue(v, sx, x, c) ELSE v

KnobMove(dragging, sv, sx, x, c, v) ==
  IF MoveHandled(dragging) THEN NewValue(sv, sx, x, c) ELSE v

(* A mousemove / touchmove on document at x: the handler of every Knob      *)
(* that listens runs                                                        *)
MoveEvent(x) ==
  /\ kvalue' = KnobMove(isDragging, startValue, startX, x, kcfg, kvalue)
  /\ emitted' = IF MoveHandled(isDragging)
                THEN <<[anchorX |-> startX, anchorValue |-> startValue,
                        x |-> x, v |-> kvalue']>>
                ELSE emitted
  /\ otherValue' = KnobMove(otherIsDragging, otherStartValue, otherStartX, x,
                            OtherKnob(kcfg), otherValue)
  /\ UNCHANGED <<exportVars, schedVars, pipeVars, jewelVars, kcfg, isDragging, startX,
                 startValue, drags, otherIsDragging, otherStartX,
                 otherStartValue, activeKnob>>

(* A move event during a drag *)
DragMove(x) ==
  /\ isDragging \/ otherIsDragging
  /\ MoveEvent(x)
  /\ UNCHANGED moveVars

(* A move event at any time, observed: the pointer position, whether the    *)
(* Knob was being dragged, and the parameter before and after               *)
PointerMove(x) ==
  /\ MoveEvent(x)
  /\ lastMove' = <<[x |-> x, dragging |-> isDragging,
                    before |-> kvalue, after |-> kvalue']>>

HandleMouseMove(x) == DragMove(x)

HandleTouchMove(x) == DragMove(x)

(* A mouseup / touchend on document: handleMouseUp of every Knob that is    *)
(* being dragged runs                                                       *)
HandleMouseUp ==
  /\ isDragging \/ otherIsDragging
  /\ isDragging' = FALSE
  /\ otherIsDragging' = FALSE
  /\ activeKnob' = HandleKnobInteractionEnd(activeKnob)
  /\ UNCHANGED <<moveVars, exportVars, schedVars, pipeVars, jewelVars, kcfg, kvalue, startX,
                 startValue, emitted, drags, otherValue, otherStartX,
                 otherStartValue>>

(* handleMouseDown / handleTouchStart of the second Knob *)
OtherDragStart(x) ==
  /\ drags < MaxDrags
  /\ drags' = drags + 1
  /\ otherIsDragging' = TRUE
  /\ otherStartX' = x
  /\ otherStartValue' = otherValue
  /\ activeKnob' = HandleKnobInteractionStart(OtherKnob(kcfg), otherValue)
  /\ UNCHANGED <<moveVars, exportVars, schedVars, pipeVars, jewelVars, kcfg, kvalue, isDragging,
                 startX, startValue, emitted, otherValue>>

NextKnob ==
  \/ \E x \in PointerXs : HandleMouseDown(x)
  \/ \E x \in PointerXs : HandleTouchStart(x)
  \/ \E x \in PointerXs : HandleMouseMove(x)
  \/ \E x \in PointerXs : HandleTouchMove(x)
  \/ HandleMouseUp

SpecKnob == InitKnob /\ [][NextKnob]_vars

(* Two Knobs of App under drag events *)
NextKnobs ==
  \/ NextKnob
  \/ \E x \in PointerXs : OtherDragStart(x)

SpecKnobs == InitKnob /\ [][NextKnobs]_vars

(* One Knob under press, release and move events at any time *)
NextMoves ==
  \/ \E x \in PointerXs : DragStart(x)
  \/ \E x \in PointerXs : PointerMove(x)
  \/ HandleMouseUp

SpecMoves == InitKnob /\ [][NextMoves]_vars

(* C5 (as claimed): every value the Knob emits lies within [min, max] and,  *)
(* when a step is set, is a multiple of step.                               *)
C5_EmittedInRangeOnStep ==
  \A m \in {emitted[i] : i \in 1..Len(emitted)} :
     /\ kcfg.min <= m.v /\ m.v <= kcfg.max
     /\ kcfg.step # 0 => m.v % kcfg.step = 0

(* The claimed drag formula, times 200:                                     *)
(* clamp(anchorValue + (pointerX - anchorX) * (max - min) / 200, min, max)  *)
ClaimedClampTimes200(m) ==
  LET raw == 200 * m.anchorValue + (m.x - m.anchorX) * (kcfg.max - kcfg.min)
  IN  IF raw < 200 * kcfg.min THEN 200 * kcfg.min
      ELSE IF raw > 200 * kcfg.max THEN 200 * kcfg.max ELSE raw

(* C6 (as claimed): a move emits the clamped drag formula rounded to the    *)
(* nearest multiple of step; anchorX=100, anchorValue=50, range [0,100],    *)
(* step=1, pointerX=150 emits 75; a drag of 200 units from anchorValue=min  *)
(* emits max.                                                               *)
C6_EmitsClampedRounded ==
  \A m \in {emitted[i] : i \in 1..Len(emitted)} :
     /\ kcfg.step # 0 =>
          /\ m.v % kcfg.step = 0
          /\ 2 * Abs(200 * m.v - ClaimedClampTimes200(m)) <= 200 * kcfg.step
     /\ (kcfg = CfgS /\ m.anchorX = 100 /\ m.anchorValue = 5000 /\ m.x = 150)
          => m.v = 7500
     /\ (m.x - m.anchorX = 200 /\ m.anchorValue = kcfg.min) => m.v = kcfg.max

(* C6 (amended): a move emits the clamped drag formula rounded to the       *)
(* nearest multiple of step when a step is set, and to two decimals when    *)
(* none is; anchorX=100, anchorValue=50, range [0,100], step=1,             *)
(* pointerX=150 emits 75; a drag of 200 units from anchorValue=min emits    *)
(* max rounded to the nearest multiple of step, which is max itself when    *)
(* max is a multiple of step or no step is set.                             *)
C6_EmitsClampedRoundedToStep ==
  \A m \in {emitted[i] : i \in 1..Len(emitted)} :
     /\ kcfg.step # 0 =>
          /\ m.v % kcfg.step = 0
          /\ 2 * Abs(200 * m.v - ClaimedClampTimes200(m)) <= 200 * kcfg.step
     /\ kcfg.step = 0 =>
          2 * Abs(200 * m.v - ClaimedClampTimes200(m)) <= 200
     /\ (kcfg = CfgS /\ m.anchorX = 100 /\ m.anchorValue = 5000 /\ m.x = 150)
          => m.v = 7500
     /\ (m.x - m.anchorX = 200 /\ m.anchorValue = kcfg.min) =>
          /\ kcfg.step # 0 =>
               /\ m.v % kcfg.step = 0
               /\ 2 * Abs(m.v - kcfg.max) <= kcfg.step
          /\ (kcfg.step = 0 \/ kcfg.max % kcfg.step = 0) => m.v = kcfg.max

(* C6 witness: the scenario of the claim has been played and emitted 75 *)
C6_Witness ==
  /\ kcfg = CfgS
  /\ emitted = <<[anchorX |-> 100, anchorValue |-> 5000, x |-> 150, v |-> 7500]>>
  /\ kvalue = 7500

----------------------------------------------------------------------------
(* The gauge of the knob being dragged *)

GaugeM == TickCount(kcfg) - 1
GaugeR == kcfg.max - kcfg.min
GaugeDen == GaugeM * GaugeR

(* The ticks the gauge renders *)
Produced == {GaugeTicks[i][1] : i \in {j \in DOMAIN GaugeTicks : GaugeTicks[j] # <<>>}}

(* Distance of tick i's nominal value from the current value, times M *)
Dist(i) == Abs((kcfg.min * GaugeM + i * GaugeR) - kvalue * GaugeM)

Nearest(i) == \A j \in 0..GaugeM : Dist(i) <= Dist(j)

StrictlyNearest(i) == \A j \in 0..GaugeM : j # i => Dist(i) < Dist(j)

(* C7 (as claimed): the tick whose nominal value is nearest the current     *)
(* value is rendered, is marked isCurrent, and sits within 0.5 degrees of   *)
(* the centre of the fan.                                                   *)
C7_NearestTickIsCurrent ==
  \A i \in 0..GaugeM :
     Nearest(i) =>
        /\ GaugeTicks[i] # <<>>
        /\ GaugeTicks[i][1].isCurrent
        /\ 2 * Abs(GaugeTicks[i][1].angle) <= GaugeDen

(* C7 (amended): for a value within [min, max], a tick is marked isCurrent  *)
(* exactly when its nominal value is strictly nearer the value than every   *)
(* other tick's (at a tie between two ticks none is); the current tick is   *)
(* rendered within half a tick spacing, 60 / (N - 1) degrees, of the centre *)
(* of the fan, and exactly at the centre when the value is its nominal      *)
(* value.                                                                   *)
C7_StrictlyNearestTickIsCurrent ==
  (kcfg.min <= kvalue /\ kvalue <= kcfg.max) =>
     \A i \in 0..GaugeM :
        /\ StrictlyNearest(i) =>
              /\ GaugeTicks[i] # <<>>
              /\ GaugeTicks[i][1].isCurrent
              /\ Abs(GaugeTicks[i][1].angle) <= 60 * GaugeR
              /\ Dist(i) = 0 => GaugeTicks[i][1].angle = 0
        /\ (GaugeTicks[i] # <<>> /\ GaugeTicks[i][1].isCurrent) => StrictlyNearest(i)

(* C7 witness: after a drag the value lies between two ticks, and the       *)
(* current tick is more than 0.5 degrees off the centre.                    *)
C7_Witness ==
  /\ emitted # <<>>
  /\ kcfg.min <= kvalue /\ kvalue <= kcfg.max
  /\ \E t \in Produced : t.isCurrent /\ 2 * Abs(t.angle) > GaugeDen

(* C8: the gauge has N = round((max - min) / subStep) + 1 ticks (41 when    *)
(* subStep is unset); tick i sits at                                        *)
(* (i / (N - 1) - (value - min) / (max - min)) * 120 degrees and is         *)
(* rendered if and only if that angle is at most 90 degrees in magnitude.   *)
C8_TicksWithinFan ==
  /\ DOMAIN GaugeTicks = 0..GaugeM
  /\ kcfg.subStep = 0 => GaugeM + 1 = 41
  /\ kcfg.subStep # 0 => 2 * Abs(GaugeR - GaugeM * kcfg.subStep) <= kcfg.subStep
  /\ \A i \in 0..GaugeM :
        LET claimed == 120 * (i * GaugeR - (kvalue - kcfg.min) * GaugeM)
        IN  /\ GaugeTicks[i] # <<>> <=> Abs(claimed) <= 90 * GaugeDen
            /\ GaugeTicks[i] # <<>> => GaugeTicks[i][1].angle = claimed

(* C8 witness: after a drag, one tick is rendered exactly at 90 degrees and *)
(* another tick is dropped.                                                 *)
C8_Witness ==
  /\ emitted # <<>>
  /\ \E t \in Produced : Abs(t.angle) = 90 * GaugeDen
  /\ \E i \in 0..GaugeM : GaugeTicks[i] = <<>>

(* C9 (as claimed): opacity falls linearly from 1 at 0 degrees to 0 at 90   *)
(* degrees, so every rendered tick with |angle| < 90 has opacity > 0.       *)
C9_OpacityFadesToVisibleEdge ==
  \A t \in Produced :
     /\ 3 * t.opacity = 2 * (90 * GaugeDen - Abs(t.angle))
     /\ Abs(t.angle) < 90 * GaugeDen => t.opacity > 0

(* C9 (amended): opacity falls linearly from 1 at 0 degrees to 0 at 60      *)
(* degrees and is 0 from 60 to 90 degrees, so a rendered tick has opacity   *)
(* > 0 if and only if |angle| < 60.                                         *)
C9_OpacityFadesToSixty ==
  \A t \in Produced :
     /\ Abs(t.angle) < 60 * GaugeDen =>
           /\ t.opacity > 0
           /\ t.opacity + Abs(t.angle) = 60 * GaugeDen
     /\ Abs(t.angle) >= 60 * GaugeDen => t.opacity = 0

(* C9 witness: after a drag, one tick is rendered between 60 and 90 degrees *)
(* with opacity 0, another inside 60 degrees with a partial opacity.        *)
C9_Witness ==
  /\ emitted # <<>>
  /\ \E t \in Produced :
        /\ 60 * GaugeDen < Abs(t.angle) /\ Abs(t.angle) < 90 * GaugeDen
        /\ t.opacity = 0
  /\ \E t \in Produced : 0 < t.opacity /\ t.opacity < 60 * GaugeDen

----------------------------------------------------------------------------
(* Node resolution *)

(* b is the id of the first node of the graph that satisfies P, or null     *)
(* when no node does                                                        *)
FirstMatch(b, P(_)) ==
  IF b = NULL THEN \A i \in 1..Len(nodes) : ~P(nodes[i])
  ELSE \E i \in 1..Len(nodes) :
          /\ nodes[i].id = b
          /\ P(nodes[i])
          /\ \A j \in 1..(i - 1) : ~P(nodes[j])

(* The node id the jewelry preview has resolved, rendered or not yet *)
InnerDiameterBinding ==
  IF innerDiameterNodeId # NULL THEN innerDiameterNodeId ELSE pendingNodeId

(* C11: once the graph is loaded, each binding is the id of the first node  *)
(* in list order that satisfies its predicate, and null when no node does;  *)
(* for nodes [a with range [80,250], b with range [3,16]] the diameter      *)
(* predicate binds a, the polygon predicate binds b, and the innerDiameter  *)
(* predicate, which matches no node, leaves its binding null.               *)
C11_FirstMatchResolved ==
  evalCalls > 0 =>
     /\ variant = "current" =>
           /\ FirstMatch(diameterNodeId, IsDiameterNode)
           /\ FirstMatch(polygonNodeId, IsPolygonNode)
           /\ nodes = <<NodeA, NodeB>> =>
                 diameterNodeId = "a" /\ polygonNodeId = "b"
     /\ variant = "jewelry" =>
           /\ FirstMatch(InnerDiameterBinding, IsInnerDiameterNode)
           /\ nodes = <<NodeA, NodeB>> => InnerDiameterBinding = NULL

(* C11 witness: a loaded graph with two nodes of range [80,250] and none of *)
(* range [3,16]: the first is bound to diameter, polygon stays unbound.     *)
C11_Witness ==
  /\ variant = "current"
  /\ evalCalls > 0
  /\ nodes = <<NodeC, NodeA2, NodeA>>
  /\ diameterNodeId = "a2"
  /\ polygonNodeId = NULL

----------------------------------------------------------------------------
(* Binding failure *)

(* Exactly one of diameter and polygon found its node *)
HalfBound == (diameterNodeId = NULL) # (polygonNodeId = NULL)

----------------------------------------------------------------------------
(* Evaluation passes *)

(* A step in which an evaluate() call settles *)
SettleStep == lastPass' # lastPass

(* C13: when an evaluation started by the timer is rejected, the displayed  *)
(* set and the artifact text stay what they were, the in-flight flag is     *)
(* cleared and nothing is left that would evaluate again: no timer, no      *)
(* call in flight.  The display and the text change only when a call        *)
(* settles; a call is made only by a pending timer, and with no timer       *)
(* pending only a parameter change arms one.                                *)
C13_FailedEvaluationKeepsDisplay ==
  [][ /\ ( /\ SettleStep
           /\ lastPass'[1].kind = "update"
           /\ lastPass'[1].result.outcome = "fail" ) =>
              /\ geometries' = geometries
              /\ gcodeText' = gcodeText
              /\ ~isEvaluating'
              /\ timers' = {}
              /\ inflight' = {}
      /\ (geometries' # geometries \/ gcodeText' # gcodeText) => SettleStep
      /\ (EvalStep /\ isInitialized) => timers # {}
      /\ (isInitialized /\ timers = {} /\ timers' # {}) => ParamStep
    ]_vars

(* C13 witness: a displayed pass and an artifact text have survived a       *)
(* rejected evaluation, and a debounce window has passed without a retry.   *)
C13_Witness ==
  /\ lastPass # <<>>
  /\ lastPass[1].kind = "update"
  /\ lastPass[1].result = Rejected
  /\ geometries # <<>>
  /\ gcodeText # NULL
  /\ ~isEvaluating /\ timers = {} /\ inflight = {}
  /\ sinceChange >= DebounceMs

(* The initial evaluation has not settled yet *)
InitialPending == evalCalls = 0 \/ \E e \in inflight : e.kind = "initial"

(* C14: the first evaluate() call is the initial one, made in the step that *)
(* loads the graph and resolves the nodes; until it has settled no debounce *)
(* timer is pending and no other call is made, whatever parameter changes   *)
(* arrive.                                                                  *)
C14_InitialEvaluationFirst ==
  [][ /\ (~modular /\ modular' /\ isEvaluating') =>
            inflight' = {[id |-> 1, kind |-> "initial"]}
      /\ InitialPending =>
            /\ timers = {}
            /\ evalCalls <= 1
            /\ ~isInitialized
      /\ (InitialPending /\ ParamStep) =>
            /\ timers' = {}
            /\ ~EvalStep
      /\ (EvalStep /\ evalCalls = 0) =>
            /\ ~modular /\ modular'
            /\ inflight' = {[id |-> 1, kind |-> "initial"]}
    ]_vars

(* C14 witness: the initial evaluation is in flight, both parameters have   *)
(* been changed meanwhile, and no timer was started.                        *)
C14_Witness ==
  /\ inflight = {[id |-> 1, kind |-> "initial"]}
  /\ diameter # InitialDiameter
  /\ polygon # InitialPolygon
  /\ diameterNodeId # NULL
  /\ timers = {}
  /\ evalCalls = 1

(* The records of a pass that are meshes or curves *)
Renderable(records) ==
  {k \in 1..Len(records) : records[k].variant \in {"Mesh", "Curve"}}

(* C15: the displayed set is empty until a pass is stored, and afterwards   *)
(* it is the output of one settled pass: every primitive comes from that    *)
(* pass, and each of the pass's Mesh and Curve records is there once, in    *)
(* the order of the pass.  The set changes only in the step in which a      *)
(* call settles, to the output of that call.                                *)
C15_DisplayIsOneWholePass ==
  [][ /\ shown = <<>> => geometries = <<>>
      /\ shown # <<>> =>
            LET recs == shown[1].result.records
            IN  /\ shown[1].result.outcome = "ok"
                /\ \A e \in inflight : e.id # shown[1].id
                /\ Len(geometries) = Cardinality(Renderable(recs))
                /\ \A i \in 1..Len(geometries) :
                      /\ geometries[i].pass = shown[1].id
                      /\ geometries[i].record \in Renderable(recs)
                /\ \A i, j \in 1..Len(geometries) :
                      i < j => geometries[i].record < geometries[j].record
      /\ geometries' # geometries =>
            /\ SettleStep
            /\ shown'[1].id = lastPass'[1].id
            /\ \A i \in 1..Len(geometries') : geometries'[i].pass = lastPass'[1].id
    ]_vars

(* C15 witness: a second pass has replaced the first one's output, and a    *)
(* later pass that failed to convert has left it in place.                  *)
C15_Witness ==
  /\ shown # <<>>
  /\ shown[1].id = 2
  /\ Len(geometries) = 2
  /\ lastPass[1].id = 3
  /\ \E k \in 1..Len(lastPass[1].result.records) :
        lastPass[1].result.records[k].malformed

C17_MalformedRecordSkipped ==
  [][ ( /\ SettleStep
        /\ lastPass'[1].result.outcome = "ok"
        /\ \E k \in 1..Len(lastPass'[1].result.records) :
              lastPass'[1].result.records[k].malformed ) =>
          LET recs == lastPass'[1].result.records
          IN  \A k \in Renderable(recs) :
                 ~recs[k].malformed =>
                    \E i \in 1..Len(geometries') :
                       /\ geometries'[i].pass = lastPass'[1].id
                       /\ geometries'[i].record = k
    ]_vars

(* C18: each displayed primitive has the buffers of its record.  A Mesh     *)
(* record with V vertices gives a position buffer of 3 * V entries, an      *)
(* index buffer (of 3 * F entries for F faces) exactly when it has face     *)
(* data, and a normal buffer exactly when it has normals; a Curve record    *)
(* with V vertices gives a position buffer of 3 * V entries and neither     *)
(* normals nor indices.  A mesh of 4 vertices and 2 faces without normals   *)
(* gives buffers of 12 and 6 entries.                                       *)
C18_BufferLengths ==
  shown # <<>> =>
     \A i \in 1..Len(geometries) :
        LET rec == shown[1].result.records[geometries[i].record]
            g == geometries[i].geometry
        IN  /\ g.position = 3 * rec.vertices
            /\ rec.variant = "Mesh" =>
                  /\ g.index # <<>> <=> rec.faces # <<>>
                  /\ rec.faces # <<>> => g.index = <<3 * rec.faces[1]>>
                  /\ g.normal # <<>> <=> rec.normals # <<>>
            /\ rec.variant = "Curve" => g.normal = <<>> /\ g.index = <<>>
            /\ (rec.variant = "Mesh" /\ rec.vertices = 4 /\ rec.normals = <<>>
                  /\ rec.faces = <<2>>) =>
                  g = [position |-> 12, normal |-> <<>>, index |-> <<6>>]

(* C18 witness: the 4-vertex, 2-face mesh is displayed with buffers of 12   *)
(* and 6 entries beside a mesh with normals.                                *)
C18_Witness ==
  /\ shown # <<>>
  /\ shown[1].result.records = <<MeshFull, MeshQuad>>
  /\ Len(geometries) = 2
  /\ geometries[1].geometry = [position |-> 12, normal |-> <<12>>, index |-> <<6>>]
  /\ geometries[2].geometry = [position |-> 12, normal |-> <<>>, index |-> <<6>>]

(* The gcode output of the call that settles in this step *)
SettledGcode == lastPass'[1].result.gcode

(* The call that settles in this step stores its geometries, so that        *)
(* extractGcode is called                                                   *)
StoredStep == SettleStep /\ shown' # <<>> /\ shown'[1].id = lastPass'[1].id

(* C19: the artifact text is null until a pass has been stored; it changes  *)
(* only when a call settles whose gcode node holds a string, and then to    *)
(* that string; a stored pass with a non-empty string payload sets it; a    *)
(* pass whose gcode node is absent, whose output slot is empty, whose       *)
(* payload is not a string or whose output cannot be read leaves it         *)
(* unchanged.                                                               *)
C19_ArtifactIsLastExtraction ==
  [][ /\ shown = <<>> => gcodeText = NULL
      /\ gcodeText' # gcodeText =>
            /\ StoredStep
            /\ SettledGcode.kind = "text"
            /\ gcodeText' = SettledGcode.text
      /\ (StoredStep /\ SettledGcode.kind = "text" /\ SettledGcode.text # "") =>
            gcodeText' = SettledGcode.text
      /\ (SettleStep /\ SettledGcode.kind \in {"absent", "empty", "number", "throws"}) =>
            gcodeText' = gcodeText
    ]_vars

(* C19 witness: the text of an earlier pass is still held after a stored    *)
(* pass whose gcode payload is not a string.                                *)
C19_Witness ==
  /\ gcodeText = "g1"
  /\ lastPass # <<>>
  /\ lastPass[1].result.gcode.kind = "number"
  /\ shown # <<>> /\ shown[1].id = lastPass[1].id
  /\ lastPass[1].id > 1

(* C20 (as claimed): within one pass, conversion and extraction succeed or  *)
(* fail independently: a pass whose gcode node holds a non-empty string     *)
(* sets the artifact text even when the conversion of its geometries        *)
(* fails, and a pass whose records convert replaces the displayed set even  *)
(* when the extraction fails.                                               *)
C20_ConversionAndExtractionIndependent ==
  [][ (SettleStep /\ lastPass'[1].result.outcome = "ok") =>
        /\ (SettledGcode.kind = "text" /\ SettledGcode.text # "") =>
              gcodeText' = SettledGcode.text
        /\ (\A k \in 1..Len(lastPass'[1].result.records) :
               ~lastPass'[1].result.records[k].malformed) =>
              /\ StoredStep
              /\ \A i \in 1..Len(geometries') :
                    geometries'[i].pass = lastPass'[1].id
    ]_vars

----------------------------------------------------------------------------
(* The knobs of App under drag events *)

(* C21: for each knob App configures (Px, D of either preview, L, P),       *)
(* starting from the initial value, the parameter's current value lies in   *)
(* [min, max] after every sequence of drag begin, move and end events.      *)
C21_AppValuesInRange ==
  kcfg \in AppConfigs => (kcfg.min <= kvalue /\ kvalue <= kcfg.max)

(* C21 witness: a knob of App has been dragged twice and released, and the  *)
(* last move, which asked for more than the range holds, left the value at  *)
(* max, away from the initial value.                                        *)
C21_Witness ==
  /\ kcfg \in AppConfigs
  /\ drags = MaxDrags /\ ~isDragging
  /\ emitted # <<>>
  /\ RawTimes200(emitted[1].anchorValue, emitted[1].anchorX, emitted[1].x, kcfg)
        > DragDistance * kcfg.max
  /\ kvalue = kcfg.max /\ kvalue # kcfg.init

(* A step in which a drag begins, and one in which a drag ends *)
DragStartStep == drags' # drags
DragEndStep ==
  \/ isDragging /\ ~isDragging'
  \/ otherIsDragging /\ ~otherIsDragging'

(* C22: the gauge overlay is shown exactly while a drag is active.  Every   *)
(* drag start sets the active knob to the props and value of a knob that is *)
(* then being dragged, every drag end clears it, and after every step the   *)
(* active knob is non-null exactly when some knob is being dragged.         *)
C22_OverlayWhileDragging ==
  [][ /\ DragStartStep =>
            /\ activeKnob' \in {HandleKnobInteractionStart(kcfg, kvalue),
                                HandleKnobInteractionStart(OtherKnob(kcfg), otherValue)}
            /\ activeKnob'[1].label = kcfg.label => isDragging'
            /\ activeKnob'[1].label = OtherKnob(kcfg).label => otherIsDragging'
      /\ DragEndStep => activeKnob' = <<>>
      /\ (activeKnob' # <<>>) <=> (isDragging' \/ otherIsDragging')
    ]_vars

(* C22 witness: two knobs were pressed and moved, and a release has ended   *)
(* both drags and cleared the active knob.                                  *)
C22_Witness ==
  /\ drags = MaxDrags
  /\ ~isDragging /\ ~otherIsDragging
  /\ activeKnob = <<>>
  /\ kvalue # kcfg.init
  /\ otherValue # OtherKnob(kcfg).init

(* The live value of the parameter whose knob is the active one *)
LiveValue == IF activeKnob[1].label = kcfg.label THEN kvalue ELSE otherValue

(* C26: while a knob of App is being dragged, the value the gauge shows is  *)
(* the live current value of the active parameter (for label D, the         *)
(* diameter of the preview that is shown), not the value captured when the  *)
(* drag started.                                                            *)
C26_GaugeShowsLiveValue ==
  (activeKnob # <<>> /\ kcfg \in AppConfigs) => GaugeValue = LiveValue

(* C26 witness: a D knob is being dragged, a move has changed the diameter  *)
(* since the press, and the gauge shows the moved value.                    *)
C26_Witness ==
  /\ kcfg \in AppConfigs /\ kcfg.label = "D"
  /\ isDragging
  /\ activeKnob # <<>> /\ activeKnob[1].label = "D"
  /\ activeKnob[1].value # kvalue
  /\ GaugeValue = kvalue

----------------------------------------------------------------------------
(* The jewelry preview (ModularPreview3D) *)

(* C23 (as claimed): in the jewelry preview at most one evaluate() call is  *)
(* in flight at any time, the initial load evaluation included, for every   *)
(* sequence of innerDiameter changes and evaluator completions.             *)
C23_JewelrySingleFlight ==
  variant = "jewelry" => Cardinality(inflight) <= 1

----------------------------------------------------------------------------
(* The debounce timer of PolygonsToolPreview3D *)

(* C24: at most one debounce timer is pending at any time.  After a change  *)
(* of diameter or polygon the only timer left, if any, is the one the       *)
(* change started (a full window long, carrying the new values): the timer  *)
(* that was pending has been cancelled; and a timer callback that evaluates *)
(* belongs to the only pending timer, which is due and carries the current  *)
(* values, so no cancelled timer fires an evaluation.                       *)
C24_AtMostOneTimer ==
  [][ /\ Cardinality(timers') <= 1
      /\ ParamStep =>
            \A t \in timers' :
               t.left = DebounceMs /\ t.d = diameter' /\ t.p = polygon'
      /\ FireStep =>
            \E t \in timers :
               /\ timers = {t} /\ timers' = {}
               /\ t.left = 0 /\ t.d = diameter /\ t.p = polygon
    ]_vars

(* C24 witness: two changes 50 ms apart replaced the pending timer, and the *)
(* only user-driven evaluation so far started one window after the second.  *)
C24_Witness ==
  /\ lastFire = [n |-> 2, gap |-> 50, delay |-> DebounceMs]
  /\ evalCalls = 2
  /\ timers = {}
  /\ \E e \in inflight : e.kind = "update"

(* C25 (as claimed): the scheduler settles back to Idle after every         *)
(* evaluation, whatever its outcome.  When a call settles nothing is left   *)
(* in flight and the in-flight flag is clear; and once a call has settled   *)
(* and nothing is in flight, the next change of a bound parameter starts a  *)
(* debounce timer carrying the new values, whether the call that settled    *)
(* was the initial one or a later one and whether it failed or not.         *)
C25_IdleAfterEveryEvaluation ==
  [][ /\ SettleStep => (inflight' = {} /\ ~isEvaluating')
      /\ (ParamStep /\ modular /\ Bound /\ lastPass # <<>>
             /\ inflight = {} /\ ~isEvaluating) =>
            /\ Cardinality(timers') = 1
            /\ \A t \in timers' :
                  t.left = DebounceMs /\ t.d = diameter' /\ t.p = polygon'
    ]_vars

(* A step in which loadAndEvaluate loads the graph and calls evaluate() *)
LoadStep == \E e \in inflight' \ inflight : e.kind = "initial"

(* C27: the node ids bound to diameter and polygon are resolved once,       *)
(* during graph load and before the first evaluate() call.  The bound ids   *)
(* change only in the step that loads the graph, which is also the step of  *)
(* the first evaluate() call; the graph is loaded at most once; and no      *)
(* parameter change, timer callback, settled or failed evaluation modifies  *)
(* them afterwards.                                                         *)
C27_BoundIdsResolvedOnce ==
  [][ /\ (diameterNodeId' # diameterNodeId \/ polygonNodeId' # polygonNodeId) =>
            LoadStep
      /\ LoadStep =>
            /\ ~modular /\ modular'
            /\ evalCalls = 0 /\ evalCalls' = 1
            /\ diameterNodeId = NULL /\ polygonNodeId = NULL
            /\ diameterNodeId' = FindDiameterNode(nodes)
            /\ polygonNodeId' = FindPolygonNode(nodes)
      /\ modular => (nodes' = nodes)
    ]_vars

(* C27 witness: both ids are still the ones resolved at load after a        *)
(* parameter change, a user-driven evaluation and a rejected evaluation.    *)
C27_Witness ==
  /\ diameterNodeId = "a" /\ polygonNodeId = "b"
  /\ evalCalls = MaxEvals
  /\ diameter # InitialDiameter
  /\ lastPass # <<>> /\ lastPass[1].kind = "update"
  /\ lastPass[1].result = Rejected /\ lastPass[1].id = MaxEvals

----------------------------------------------------------------------------
(* Export of the artifact text *)

(* A click on Print that found or handed off something new *)
ExportStep == lastExport' # lastExport

(* C28: export hands off a file only when the artifact text is non-null and *)
(* non-empty, and the file's content is then exactly the current artifact   *)
(* text; with no artifact, export produces no file; and export changes no   *)
(* state of the previews, of the knobs or of the artifact.                  *)
C28_ExportOnlyCurrentArtifact ==
  [][ ExportStep =>
        /\ lastExport'[1].file # <<>> => (gcodeText # NULL /\ gcodeText # "")
        /\ lastExport'[1].file # <<>> => lastExport'[1].file = <<gcodeText>>
        /\ gcodeText = NULL => lastExport'[1].file = <<>>
        /\ (gcodeText # NULL /\ gcodeText # "") => lastExport'[1].file # <<>>
        /\ UNCHANGED <<moveVars, schedVars, knobVars, pipeVars, jewelVars>>
    ]_vars

(* C28 witness: the artifact text has been replaced by a later pass, and    *)
(* the last export handed off a file holding the current text.              *)
C28_Witness ==
  /\ lastExport # <<>>
  /\ gcodeText = "g2"
  /\ shown # <<>> /\ shown[1].id > 1
  /\ lastExport[1].file = <<gcodeText>>

----------------------------------------------------------------------------
(* The earlier PolygonsToolPreview3D (part_002) *)

(* C29 (as claimed): in the earlier variant no timer callback calls         *)
(* evaluate() while the initial load evaluation is still in flight, so at   *)
(* most one evaluate() call is in flight at any time.                       *)
C29_EarlyInitialEvaluationAlone ==
  [][ /\ FireStep => ~\E e \in inflight : e.kind = "initial"
      /\ Cardinality(inflight') <= 1
    ]_vars

----------------------------------------------------------------------------
(* What starts an evaluation of PolygonsToolPreview3D *)

(* C30 (as claimed): every evaluate() call other than the initial one is    *)
(* caused by a change of diameter or polygon: the timer whose callback      *)
(* makes the call was started or restarted by at least one change, so with  *)
(* no change after graph load the evaluator is invoked exactly once.        *)
C30_EvaluationsCausedByChanges ==
  [][ (EvalStep /\ evalCalls >= 1) => burst.n >= 1 ]_vars

----------------------------------------------------------------------------
(* Properties of the Knob's drag session *)

(* A step in which a pointer move event was observed *)
MoveStep == lastMove' # lastMove

(* C32: a Knob emits a value only between a drag start and the following    *)
(* drag end.  isDragging is raised only by a drag start and lowered only by *)
(* a drag end, every step that emits a value or changes the parameter is    *)
(* taken while isDragging, and a pointer move event that finds the Knob not *)
(* being dragged emits nothing and leaves the parameter unchanged.          *)
C32_EmitsOnlyWhileDragging ==
  [][ /\ (~isDragging /\ isDragging') => DragStartStep
      /\ (isDragging /\ ~isDragging') => DragEndStep
      /\ (emitted' # emitted \/ kvalue' # kvalue) => isDragging
      /\ (MoveStep /\ ~isDragging) => UNCHANGED knobVars
    ]_vars

(* C32 witness: a drag has emitted a value and ended, and a pointer move    *)
(* event after the release has left the parameter at the emitted value.     *)
C32_Witness ==
  /\ drags >= 1 /\ ~isDragging
  /\ emitted # <<>> /\ kvalue = emitted[1].v /\ kvalue # kcfg.init
  /\ lastMove # <<>> /\ ~lastMove[1].dragging
  /\ lastMove[1].x # emitted[1].x
  /\ lastMove[1].before = kvalue /\ lastMove[1].after = kvalue

(* C33: within one drag session the anchor position and the anchor value    *)
(* are set only at drag start, to the value the parameter has then (the one *)
(* App captures for the overlay), and a move event leaves them unchanged;   *)
(* the value a move emits is the function NewValue of the anchor and of the *)
(* pointer position of that move.                                           *)
C33_MoveDependsOnAnchorOnly ==
  [][ /\ (startX' # startX \/ startValue' # startValue) =>
            DragStartStep /\ startValue' = kvalue
      /\ MoveStep => UNCHANGED <<startX, startValue>>
      /\ (MoveStep /\ isDragging) =>
            /\ startValue = activeKnob[1].value
            /\ kvalue' = NewValue(startValue, startX, lastMove'[1].x, kcfg)
            /\ emitted'[1].v = kvalue'
    ]_vars

(* C33 witness: in one drag session a move has changed the parameter away   *)
(* from the anchor value, and a later move to another position has emitted  *)
(* the value computed from the unchanged anchor.                            *)
C33_Witness ==
  /\ isDragging /\ lastMove # <<>> /\ lastMove[1].dragging
  /\ lastMove[1].before # startValue
  /\ lastMove[1].after # lastMove[1].before
  /\ kvalue = lastMove[1].after
  /\ kvalue = NewValue(startValue, startX, lastMove[1].x, kcfg)
  /\ kvalue # NewValue(lastMove[1].before, startX, lastMove[1].x, kcfg)

----------------------------------------------------------------------------
(* Properties of the props that are not graph parameters *)

(* A step in which pixelRatio or lightness changes *)
FrameStep == otherValue' # otherValue \/ kvalue' # kvalue

(* C31: a change of pixelRatio or of lightness starts no debounce timer and *)
(* cancels none, calls neither changeNodeProperty nor evaluate, and leaves  *)
(* the node values, the displayed set and the artifact text unchanged.      *)
C31_FramePropsLeaveGraphAlone ==
  [][ FrameStep =>
        UNCHANGED <<timers, timeoutId, nodeValue, inflight, evalCalls,
                    isEvaluating, geometries, gcodeText>>
    ]_vars

(* C31 witness: pixelRatio and lightness have both been changed while the   *)
(* preview is initialised and bound with a primitive displayed, a diameter  *)
(* change has its timer pending, and only the evaluation of the load was    *)
(* ever started.                                                            *)
C31_Witness ==
  /\ AppState("pixelRatio") # CfgPx.init
  /\ AppState("lightness") # CfgL.init
  /\ Active /\ geometries # <<>>
  /\ diameter # InitialDiameter
  /\ timers # {} /\ burst.n = 1
  /\ evalCalls = 1

----------------------------------------------------------------------------
(* Properties of the debounce timer's callback *)

(* A step in which the callback of a due timer runs: the timer leaves the   *)
(* pending set in a step that is not a render of the preview                *)
CallbackStep ==
  /\ \E t \in timers : t.left = 0 /\ timers' = timers \ {t}
  /\ UNCHANGED <<diameter, polygon, modular, isInitialized>>

(* C34: whenever a debounce timer callback runs in PolygonsToolPreview3D no *)
(* evaluation is in flight, so the callback never returns at its guard: it  *)
(* raises the flag and calls evaluate().  No timer is pending while the     *)
(* flag is raised.                                                          *)
C34_CallbackGuardNeverTaken ==
  [][ /\ CallbackStep =>
            /\ ~isEvaluating /\ inflight = {}
            /\ isEvaluating' /\ evalCalls' = evalCalls + 1
      /\ isEvaluating' => timers' = {}
    ]_vars

(* C34 witness: a callback has run and evaluated after a burst of changes,  *)
(* its call is in flight, and a change made since then has started no timer *)
C34_Witness ==
  /\ lastFire.n >= 2
  /\ isEvaluating /\ \E e \in inflight : e.kind = "update"
  /\ timers = {}
  /\ sinceChange = 0
  /\ nodeValue[diameterNodeId] # <<diameter>>

====
